---- MODULE Spec2Model ----
(***************************************************************************)
(* Model of the hiring-platform backend: the guard pipeline               *)
(* (JwtAuthGuard -> CompanyMembershipGuard -> RoleGuard) and the services  *)
(* behind it (MemberService, CompanyService, ResumeService, JobService,    *)
(* QuestionBankService, ApplicationService).  The database tables are the  *)
(* state; a service method is an action; TypeORM's save(entity) writes the *)
(* entity snapshot the handler holds back to the row with the entity's id. *)
(***************************************************************************)
EXTENDS Integers, FiniteSets, Sequences, TLC

VARIABLES
    companies,   \* ids of the rows of table companies
    members,     \* table company_members: membership id -> row
    resumes,     \* table resumes: resume id -> row
    jobs,        \* table job_listings: job id -> row
    apps,        \* table job_applications: application id -> row
    now,         \* the clock read by new Date()
    last,        \* the last completed service call: operation, arguments, outcome
    req,         \* the HTTP request travelling through the guard chain
    proc,        \* concurrent in-flight service calls: slot -> local state
    comments,    \* table application_comments: comment id -> row
    banks        \* table question_banks: question bank id -> row

vars == <<companies, members, resumes, jobs, apps, now, last, req, proc,
          comments, banks>>

(***************************************************************************)
(* Bounds of the model.                                                    *)
(***************************************************************************)
MaxResumes == 3
MaxTime == 2
NumSlots == 2

Users == {"u1", "u2", "u3"}
Companies == {"c1", "c2"}
\* the tenants the single-tenant specifications create (tenants do not interact)
OneTenant == {"c1"}
Slots == 1..NumSlots

(***************************************************************************)
(* Enums (src/db/datasource.ts holds the enums file).                       *)
(***************************************************************************)
CompanyRole == {"OWNER", "ADMIN", "RECRUITER"}
MemberStatus == {"ACTIVE", "INVITED", "REVOKED"}

(* A membership id.  The unique index (company, user) makes the id and the *)
(* pair determine each other, so the generated uuid is modelled by the pair.*)
MemberIds == Companies \X Users

NoLast == [op |-> "none", res |-> "none"]
NoReq == [pc |-> "idle"]

(***************************************************************************)
(* Repository helpers of MemberService.                                    *)
(***************************************************************************)

\* the lookup by id alone
FindMember_AnyCompany(mem, memberId, companyId) ==
    IF memberId \in DOMAIN mem THEN {memberId} ELSE {}

\* memberRepository.findOne({ where: { id: memberId, company: { id: companyId } } })
FindMember(mem, memberId, companyId) ==
    IF memberId \in DOMAIN mem /\ mem[memberId].company = companyId
    THEN {memberId} ELSE {}

\* memberRepository.findOne({ where: { company, user } })
FindMemberOfUser(mem, companyId, userId) ==
    {m \in DOMAIN mem : mem[m].company = companyId /\ mem[m].user = userId}

\* memberRepository.count({ where: { company, role: OWNER, status: ACTIVE } })
ActiveOwners(mem, companyId) ==
    {m \in DOMAIN mem : /\ mem[m].company = companyId
                        /\ mem[m].role = "OWNER"
                        /\ mem[m].status = "ACTIVE"}

\* the count without its status filter
OwnerCount_AnyStatus(mem, companyId) ==
    Cardinality({m \in DOMAIN mem : /\ mem[m].company = companyId
                                    /\ mem[m].role = "OWNER"})

OwnerCount(mem, companyId) == Cardinality(ActiveOwners(mem, companyId))

\* off by one: the last OWNER passes the guard
LastOwnerBlocked_OffByOne(ownerCount) == ownerCount < 1

\* the guard `ownerCount <= 1` of updateMemberRole and revokeMember
LastOwnerBlocked(ownerCount) == ownerCount <= 1

\* repository.save(entity) of a loaded or a new row
SaveMember(mem, id, row) ==
    [m \in (DOMAIN mem) \cup {id} |-> IF m = id THEN row ELSE mem[m]]

(***************************************************************************)
(* CompanyService.createCompany: one transaction inserting the company and *)
(* the creator's OWNER / ACTIVE membership.                                *)
(***************************************************************************)
\* id is the uuid the insert generates: any id not in use
createCompany(userId, id) ==
    /\ id \notin companies
    /\ companies' = companies \cup {id}
    /\ members' = SaveMember(members, <<id, userId>>,
                     [company |-> id, user |-> userId,
                      role |-> "OWNER", status |-> "ACTIVE"])
    /\ last' = [op |-> "createCompany", company |-> id, user |-> userId,
                res |-> "OK"]

(***************************************************************************)
(* MemberService.inviteMember.  email names a user or nobody.              *)
(***************************************************************************)
\* the membership created with the status the method's comment announces
inviteMemberResult_Invited(mem, companyId, email, role) ==
    IF email \notin Users THEN [res |-> "NotFoundException", mem |-> mem]
    ELSE IF FindMemberOfUser(mem, companyId, email) # {}
    THEN [res |-> "BadRequestException", mem |-> mem]
    ELSE [res |-> "OK",
          mem |-> SaveMember(mem, <<companyId, email>>,
                     [company |-> companyId, user |-> email,
                      role |-> role, status |-> "INVITED"])]

inviteMemberResult(mem, companyId, email, role) ==
    IF email \notin Users THEN [res |-> "NotFoundException", mem |-> mem]
    ELSE IF FindMemberOfUser(mem, companyId, email) # {}
    THEN [res |-> "BadRequestException", mem |-> mem]
    ELSE [res |-> "OK",
          mem |-> SaveMember(mem, <<companyId, email>>,
                     [company |-> companyId, user |-> email,
                      role |-> role, status |-> "ACTIVE"])]

inviteMember(companyId, email, role) ==
    LET r == inviteMemberResult(members, companyId, email, role) IN
    /\ members' = r.mem
    /\ last' = [op |-> "inviteMember", company |-> companyId, email |-> email,
                role |-> role, res |-> r.res]

(***************************************************************************)
(* MemberService.updateMemberRole                                          *)
(***************************************************************************)
updateMemberRoleResult(mem, companyId, memberId, role) ==
    IF FindMember(mem, memberId, companyId) = {}
    THEN [res |-> "NotFoundException", mem |-> mem]
    ELSE IF /\ mem[memberId].role = "OWNER"
            /\ role # "OWNER"
            /\ LastOwnerBlocked(OwnerCount(mem, companyId))
    THEN [res |-> "BadRequestException", mem |-> mem]
    ELSE [res |-> "OK",
          mem |-> SaveMember(mem, memberId, [mem[memberId] EXCEPT !.role = role])]

updateMemberRole(companyId, memberId, role) ==
    LET r == updateMemberRoleResult(members, companyId, memberId, role) IN
    /\ members' = r.mem
    /\ last' = [op |-> "updateMemberRole", company |-> companyId,
                member |-> memberId, role |-> role, res |-> r.res]

(***************************************************************************)
(* MemberService.revokeMember                                              *)
(***************************************************************************)
revokeMemberResult(mem, companyId, memberId) ==
    IF FindMember(mem, memberId, companyId) = {}
    THEN [res |-> "NotFoundException", mem |-> mem]
    ELSE IF /\ mem[memberId].role = "OWNER"
            /\ LastOwnerBlocked(OwnerCount(mem, companyId))
    THEN [res |-> "BadRequestException", mem |-> mem]
    ELSE [res |-> "OK",
          mem |-> SaveMember(mem, memberId,
                             [mem[memberId] EXCEPT !.status = "REVOKED"])]

revokeMember(companyId, memberId) ==
    LET r == revokeMemberResult(members, companyId, memberId) IN
    /\ members' = r.mem
    /\ last' = [op |-> "revokeMember", company |-> companyId,
                member |-> memberId, res |-> r.res]

(***************************************************************************)
(* MemberService.transferOwnership: one transaction.  The two findOne      *)
(* calls return two entity objects; the target is saved with role OWNER,   *)
(* then the initiator's entity is saved with role ADMIN.                   *)
(***************************************************************************)
\* findOne({ company, user: currentUserId, role: OWNER, status: ACTIVE })
FindCurrentOwner(mem, companyId, userId) ==
    {m \in FindMemberOfUser(mem, companyId, userId) :
        mem[m].role = "OWNER" /\ mem[m].status = "ACTIVE"}

\* the target query without its status filter
FindActiveTarget_AnyStatus(mem, companyId, memberId) ==
    FindMember(mem, memberId, companyId)

\* findOne({ id: targetMemberId, company, status: ACTIVE })
FindActiveTarget(mem, companyId, memberId) ==
    {m \in FindMember(mem, memberId, companyId) : mem[m].status = "ACTIVE"}

transferOwnershipResult(mem, companyId, targetMemberId, currentUserId) ==
    LET cur == FindCurrentOwner(mem, companyId, currentUserId)
        tgt == FindActiveTarget(mem, companyId, targetMemberId)
    IN
    IF cur = {} THEN [res |-> "ForbiddenException", mem |-> mem]
    ELSE IF tgt = {} THEN [res |-> "NotFoundException", mem |-> mem]
    ELSE LET c == CHOOSE m \in cur : TRUE
             currentMembership == mem[c]
             targetMembership == mem[targetMemberId]
             mem1 == SaveMember(mem, targetMemberId,
                        [targetMembership EXCEPT !.role = "OWNER"])
             mem2 == SaveMember(mem1, c,
                        [currentMembership EXCEPT !.role = "ADMIN"])
         IN [res |-> "OK", mem |-> mem2]

transferOwnership(companyId, targetMemberId, currentUserId) ==
    LET r == transferOwnershipResult(members, companyId, targetMemberId,
                                     currentUserId) IN
    /\ members' = r.mem
    /\ last' = [op |-> "transferOwnership", company |-> companyId,
                member |-> targetMemberId, user |-> currentUserId,
                res |-> r.res]

(***************************************************************************)
(* Service-level specification of the membership tables: the five          *)
(* operations called one at a time with any arguments.                     *)
(***************************************************************************)
Emails == Users \cup {"nobody"}

InitTables ==
    /\ companies = {}
    /\ members = << >>
    /\ resumes = << >>
    /\ jobs = << >>
    /\ apps = << >>
    /\ comments = << >>
    /\ banks = << >>
    /\ now = 0
    /\ last = NoLast
    /\ req = NoReq
    /\ proc = << >>

Init == InitTables

CreateCompany ==
    /\ \E u \in Users, id \in OneTenant : createCompany(u, id)
    /\ UNCHANGED <<comments, banks, resumes, jobs, apps, now, req, proc>>

InviteMember ==
    /\ \E c \in companies, e \in Emails, r \in CompanyRole : inviteMember(c, e, r)
    /\ UNCHANGED <<comments, banks, companies, resumes, jobs, apps, now, req, proc>>

UpdateMemberRole ==
    /\ \E c \in companies, m \in MemberIds, r \in CompanyRole :
          updateMemberRole(c, m, r)
    /\ UNCHANGED <<comments, banks, companies, resumes, jobs, apps, now, req, proc>>

RevokeMember ==
    /\ \E c \in companies, m \in MemberIds : revokeMember(c, m)
    /\ UNCHANGED <<comments, banks, companies, resumes, jobs, apps, now, req, proc>>

TransferOwnership ==
    /\ \E c \in companies, m \in MemberIds, u \in Users :
          transferOwnership(c, m, u)
    /\ UNCHANGED <<comments, banks, companies, resumes, jobs, apps, now, req, proc>>

Next ==
    \/ CreateCompany
    \/ InviteMember
    \/ UpdateMemberRole
    \/ RevokeMember
    \/ TransferOwnership

Spec == Init /\ [][Next]_vars


(***************************************************************************)
(* Concurrent revokeMember / updateMemberRole calls.  Neither method opens *)
(* a transaction or takes a lock: every awaited repository call is a step  *)
(* of its own (find, count, save) and other requests run in between.       *)
(* The tenant starts with two ACTIVE OWNERs and one ADMIN (createCompany   *)
(* by u1, then u2 invited as OWNER and u3 as ADMIN).                       *)
(***************************************************************************)
TwoOwners ==
    [m \in {<<"c1", "u1">>, <<"c1", "u2">>, <<"c1", "u3">>} |->
        [company |-> "c1", user |-> m[2],
         role |-> IF m[2] = "u3" THEN "ADMIN" ELSE "OWNER",
         status |-> "ACTIVE"]]

IdleProc == [pc |-> "idle"]

InitMemberConc ==
    /\ companies = {"c1"}
    /\ members = TwoOwners
    /\ resumes = << >>
    /\ jobs = << >>
    /\ apps = << >>
    /\ comments = << >>
    /\ banks = << >>
    /\ now = 0
    /\ last = NoLast
    /\ req = NoReq
    /\ proc = [s \in Slots |-> IdleProc]

\* revokeMember saving the entity without the new status
RevokedEntity_Unchanged(entity) == entity

\* the row revokeMember saves: the loaded entity with status REVOKED
RevokedEntity(entity) == [entity EXCEPT !.status = "REVOKED"]

\* the row updateMemberRole saves: the loaded entity with the new role
RoleEntity(entity, role) == [entity EXCEPT !.role = role]

Finish(s, res) == proc' = [proc EXCEPT ![s] = [@ EXCEPT !.pc = "done", !.res = res]]

\* a request enters revokeMember(companyId, memberId)
RevokeStart(s) ==
    /\ proc[s].pc = "idle"
    /\ \E m \in DOMAIN members :
          proc' = [proc EXCEPT ![s] =
                     [pc |-> "find", op |-> "revokeMember", company |-> "c1",
                      member |-> m, role |-> "-", entity |-> members[m],
                      count |-> -1, res |-> "-"]]
    /\ UNCHANGED <<comments, banks, companies, members, resumes, jobs, apps, now, last, req>>

\* a request enters updateMemberRole(companyId, memberId, { role }), a demotion
RoleStart(s) ==
    /\ proc[s].pc = "idle"
    /\ \E m \in DOMAIN members, r \in {"ADMIN", "RECRUITER"} :
          proc' = [proc EXCEPT ![s] =
                     [pc |-> "find", op |-> "updateMemberRole", company |-> "c1",
                      member |-> m, role |-> r, entity |-> members[m],
                      count |-> -1, res |-> "-"]]
    /\ UNCHANGED <<comments, banks, companies, members, resumes, jobs, apps, now, last, req>>

\* await memberRepository.findOne(...), then the role test on the loaded entity
RevokeFind(s) ==
    /\ proc[s].pc = "find" /\ proc[s].op = "revokeMember"
    /\ IF FindMember(members, proc[s].member, proc[s].company) = {}
       THEN Finish(s, "NotFoundException")
       ELSE LET e == members[proc[s].member] IN
            proc' = [proc EXCEPT ![s] =
                       [@ EXCEPT !.entity = e,
                                 !.pc = IF e.role = "OWNER" THEN "count" ELSE "save"]]
    /\ UNCHANGED <<comments, banks, companies, members, resumes, jobs, apps, now, last, req>>

RoleFind(s) ==
    /\ proc[s].pc = "find" /\ proc[s].op = "updateMemberRole"
    /\ IF FindMember(members, proc[s].member, proc[s].company) = {}
       THEN Finish(s, "NotFoundException")
       ELSE LET e == members[proc[s].member] IN
            proc' = [proc EXCEPT ![s] =
                       [@ EXCEPT !.entity = e,
                                 !.pc = IF e.role = "OWNER" /\ proc[s].role # "OWNER"
                                        THEN "count" ELSE "save"]]
    /\ UNCHANGED <<comments, banks, companies, members, resumes, jobs, apps, now, last, req>>

\* await memberRepository.count(...), then the test ownerCount <= 1
OwnerCountStep(s) ==
    /\ proc[s].pc = "count"
    /\ LET n == OwnerCount(members, proc[s].company) IN
       IF LastOwnerBlocked(n)
       THEN proc' = [proc EXCEPT ![s] =
                       [@ EXCEPT !.count = n, !.pc = "done",
                                 !.res = "BadRequestException"]]
       ELSE proc' = [proc EXCEPT ![s] = [@ EXCEPT !.count = n, !.pc = "save"]]
    /\ UNCHANGED <<comments, banks, companies, members, resumes, jobs, apps, now, last, req>>

\* membership.status = REVOKED; await memberRepository.save(membership)
RevokeSave(s) ==
    /\ proc[s].pc = "save" /\ proc[s].op = "revokeMember"
    /\ members' = SaveMember(members, proc[s].member, RevokedEntity(proc[s].entity))
    /\ Finish(s, "OK")
    /\ UNCHANGED <<comments, banks, companies, resumes, jobs, apps, now, last, req>>

\* membership.role = dto.role; await memberRepository.save(membership)
RoleSave(s) ==
    /\ proc[s].pc = "save" /\ proc[s].op = "updateMemberRole"
    /\ members' = SaveMember(members, proc[s].member,
                             RoleEntity(proc[s].entity, proc[s].role))
    /\ Finish(s, "OK")
    /\ UNCHANGED <<comments, banks, companies, resumes, jobs, apps, now, last, req>>

NextMemberConc ==
    \E s \in Slots :
       \/ RevokeStart(s)
       \/ RoleStart(s)
       \/ RevokeFind(s)
       \/ RoleFind(s)
       \/ OwnerCountStep(s)
       \/ RevokeSave(s)
       \/ RoleSave(s)

SpecMemberConc == InitMemberConc /\ [][NextMemberConc]_vars

(***************************************************************************)
(* The guard pipeline.  A route lists its guards in @UseGuards(...) and    *)
(* its allowed roles in @Roles(...); the framework runs the listed guards  *)
(* in order, stops at the first exception and calls the handler only when  *)
(* every guard returned true.                                              *)
(***************************************************************************)
JWT == "JwtAuthGuard"
CMG == "CompanyMembershipGuard"
RG == "RoleGuard"

Route(name, guards, roles) == [name |-> name, guards |-> guards, roles |-> roles]

\* @UseGuards / @Roles of the controllers' routes
ControllerRoutes ==
    { Route("findPublicJobs", << >>, {}),
      Route("getMyApplications", <<JWT>>, {}),
      Route("listMembers", <<JWT, CMG>>, {}),
      Route("inviteMember", <<JWT, CMG, RG>>, {"OWNER", "ADMIN"}),
      Route("updateRole", <<JWT, CMG, RG>>, {"OWNER", "ADMIN"}),
      Route("revokeMember", <<JWT, CMG, RG>>, {"OWNER", "ADMIN"}),
      Route("transferOwnership", <<JWT, CMG, RG>>, {"OWNER"}),
      Route("updateJobStatus", <<JWT, CMG, RG>>, {"OWNER", "ADMIN", "RECRUITER"}) }

\* RoleGuard on a handler without @Roles metadata (the reflector returns
\* undefined): the branch `!requiredRoles || requiredRoles.length === 0`
UndeclaredRolesRoute == Route("noRolesDeclared", <<JWT, CMG, RG>>, {})

Routes == ControllerRoutes \cup {UndeclaredRolesRoute}

\* revokeMember declared without JwtAuthGuard
GuardChain_NoJwt(route) ==
    IF route.name = "revokeMember" THEN <<CMG, RG>> ELSE route.guards

\* the chain the framework runs for a route
GuardChain(route) == route.guards

\* table users: u1..u3 are active, u0 has is_active = false
AllUsers == Users \cup {"u0"}
IsActiveUser(u) == u \in Users

\* Authorization header: absent, not `Bearer <token>`, a token jwt.verify
\* rejects (bad signature or expired), or a valid token carrying user_id
TokenUserIds == AllUsers \cup {"ghost"}
Tokens == {"absent", "malformed", "rejected"} \cup TokenUserIds

\* JwtAuthGuard.canActivate: the exception thrown, or "pass" with request.user
JwtAuthGuard(token) ==
    IF token = "absent" THEN [verdict |-> "UnauthorizedException", user |-> "-"]
    ELSE IF token = "malformed" THEN [verdict |-> "UnauthorizedException", user |-> "-"]
    ELSE IF token = "rejected" THEN [verdict |-> "UnauthorizedException", user |-> "-"]
    ELSE IF token \notin AllUsers THEN [verdict |-> "UnauthorizedException", user |-> "-"]
    ELSE IF ~IsActiveUser(token) THEN [verdict |-> "UnauthorizedException", user |-> "-"]
    ELSE [verdict |-> "pass", user |-> token]

\* the membership lookup without its status filter
FindActiveMembership_AnyStatus(mem, companyId, userId) ==
    FindMemberOfUser(mem, companyId, userId)

\* findOne({ company: companyId, user: user.id, status: ACTIVE })
FindActiveMembership(mem, companyId, userId) ==
    {m \in FindMemberOfUser(mem, companyId, userId) : mem[m].status = "ACTIVE"}

NoMembership == [company |-> "-", user |-> "-", role |-> "-", status |-> "-"]

\* CompanyMembershipGuard.canActivate
CompanyMembershipGuard(mem, user, companyId) ==
    IF user = "-" THEN [verdict |-> "UnauthorizedException", membership |-> NoMembership]
    ELSE IF companyId = "-"
    THEN [verdict |-> "ForbiddenException", membership |-> NoMembership]
    ELSE IF FindActiveMembership(mem, companyId, user) = {}
    THEN [verdict |-> "ForbiddenException", membership |-> NoMembership]
    ELSE [verdict |-> "pass",
          membership |-> mem[CHOOSE m \in FindActiveMembership(mem, companyId, user) : TRUE]]

\* RoleGuard that only requires a resolved membership
RoleGuard_NoRoleTest(requiredRoles, membership) ==
    IF requiredRoles = {} THEN "pass"
    ELSE IF membership = NoMembership THEN "ForbiddenException"
    ELSE "pass"

\* RoleGuard.canActivate
RoleGuard(requiredRoles, membership) ==
    IF requiredRoles = {} THEN "pass"
    ELSE IF membership = NoMembership THEN "ForbiddenException"
    ELSE IF membership.role \notin requiredRoles THEN "ForbiddenException"
    ELSE "pass"

\* the stages that have run, oldest first: <<guard or "handler", verdict>>
Ran(stage, verdict) == [stage |-> stage, verdict |-> verdict]

\* a request arrives: route, Authorization header and :companyId parameter
NewRequest ==
    /\ req.pc \in {"idle", "done"}
    /\ \E route \in Routes, token \in Tokens, c \in companies \cup {"-"} :
          req' = [pc |-> "guards", route |-> route, token |-> token,
                  companyId |-> c, idx |-> 1, user |-> "-",
                  membership |-> NoMembership, ran |-> << >>, outcome |-> "-"]
    /\ UNCHANGED <<comments, banks, companies, members, resumes, jobs, apps, now, last, proc>>

AtGuard(g) ==
    /\ req.pc = "guards"
    /\ req.idx <= Len(GuardChain(req.route))
    /\ GuardChain(req.route)[req.idx] = g

\* the framework's reaction to a guard's verdict
AfterGuard(g, verdict, user, membership) ==
    req' = [req EXCEPT !.ran = Append(@, Ran(g, verdict)),
                       !.user = user,
                       !.membership = membership,
                       !.idx = IF verdict = "pass" THEN @ + 1 ELSE @,
                       !.pc = IF verdict = "pass" THEN "guards" ELSE "done",
                       !.outcome = IF verdict = "pass" THEN "-" ELSE verdict]

JwtAuthGuardStep ==
    /\ AtGuard(JWT)
    /\ LET r == JwtAuthGuard(req.token) IN
       AfterGuard(JWT, r.verdict, r.user, req.membership)
    /\ UNCHANGED <<comments, banks, companies, members, resumes, jobs, apps, now, last, proc>>

CompanyMembershipGuardStep ==
    /\ AtGuard(CMG)
    /\ LET r == CompanyMembershipGuard(members, req.user, req.companyId) IN
       AfterGuard(CMG, r.verdict, req.user, r.membership)
    /\ UNCHANGED <<comments, banks, companies, members, resumes, jobs, apps, now, last, proc>>

RoleGuardStep ==
    /\ AtGuard(RG)
    /\ AfterGuard(RG, RoleGuard(req.route.roles, req.membership),
                  req.user, req.membership)
    /\ UNCHANGED <<comments, banks, companies, members, resumes, jobs, apps, now, last, proc>>

\* the controller method: the service call with the route's parameters and body
HandlerResult(mem, name, c, user, memberId, email, role) ==
    CASE name = "inviteMember" -> inviteMemberResult(mem, c, email, role)
      [] name = "updateRole" -> updateMemberRoleResult(mem, c, memberId, role)
      [] name = "revokeMember" -> revokeMemberResult(mem, c, memberId)
      [] name = "transferOwnership" -> transferOwnershipResult(mem, c, memberId, user)
      [] OTHER -> [res |-> "OK", mem |-> mem]

HandlerStep ==
    /\ req.pc = "guards"
    /\ req.idx > Len(GuardChain(req.route))
    /\ \E m \in MemberIds, e \in Emails, r \in CompanyRole :
          LET h == HandlerResult(members, req.route.name, req.companyId,
                                 req.user, m, e, r) IN
          /\ members' = h.mem
          /\ req' = [req EXCEPT !.ran = Append(@, Ran("handler", h.res)),
                                !.pc = "done", !.outcome = h.res]
    /\ UNCHANGED <<comments, banks, companies, resumes, jobs, apps, now, last, proc>>

\* tenant c1 created by u1; u3 holds a membership row with status INVITED
InitHttp ==
    /\ companies = {"c1"}
    /\ members = [m \in {<<"c1", "u1">>, <<"c1", "u3">>} |->
                    IF m[2] = "u1"
                    THEN [company |-> "c1", user |-> "u1",
                          role |-> "OWNER", status |-> "ACTIVE"]
                    ELSE [company |-> "c1", user |-> "u3",
                          role |-> "ADMIN", status |-> "INVITED"]]
    /\ resumes = << >>
    /\ jobs = << >>
    /\ apps = << >>
    /\ comments = << >>
    /\ banks = << >>
    /\ now = 0
    /\ last = NoLast
    /\ req = NoReq
    /\ proc = << >>

NextHttp ==
    \/ NewRequest
    \/ JwtAuthGuardStep
    \/ CompanyMembershipGuardStep
    \/ RoleGuardStep
    \/ HandlerStep

SpecHttp == InitHttp /\ [][NextHttp]_vars

(***************************************************************************)
(* ResumeService.  Table resumes: id -> [user, is_primary].                *)
(***************************************************************************)
ResumeIds == 1..MaxResumes
MAX_RESUMES_PER_USER == 10

ResumesOf(res, userId) == {r \in DOMAIN res : res[r].user = userId}
Primaries(res, userId) == {r \in ResumesOf(res, userId) : res[r].is_primary}

\* update(Resume).set({ is_primary: false }).where(user_id).andWhere(is_primary = true)
DemotePrimaries(res, userId) ==
    [r \in DOMAIN res |->
        IF res[r].user = userId /\ res[r].is_primary
        THEN [res[r] EXCEPT !.is_primary = FALSE] ELSE res[r]]

\* setPrimary without its demotion step
DemoteAll_Skipped(res, userId) == res

\* update(Resume).set({ is_primary: false }).where(user_id)
DemoteAll(res, userId) ==
    [r \in DOMAIN res |->
        IF res[r].user = userId
        THEN [res[r] EXCEPT !.is_primary = FALSE] ELSE res[r]]

SaveResume(res, id, row) ==
    [r \in (DOMAIN res) \cup {id} |-> IF r = id THEN row ELSE res[r]]

\* ResumeService.create; id is the uuid of the inserted row, uploadOk the
\* outcome of storageService.uploadFile
createResumeResult(res, userId, isPrimary, uploadOk, id) ==
    IF Cardinality(ResumesOf(res, userId)) >= MAX_RESUMES_PER_USER
    THEN [res |-> "BadRequestException", resumes |-> res]
    ELSE IF ~uploadOk
    THEN [res |-> "InternalServerErrorException", resumes |-> res]
    ELSE IF isPrimary
    THEN [res |-> "OK",
          resumes |-> SaveResume(DemotePrimaries(res, userId), id,
                                 [user |-> userId, is_primary |-> TRUE])]
    ELSE [res |-> "OK",
          resumes |-> SaveResume(res, id, [user |-> userId, is_primary |-> FALSE])]

\* ResumeService.setPrimary: one transaction, demote all then promote
setPrimaryResult(res, userId, resumeId) ==
    IF resumeId \notin ResumesOf(res, userId)
    THEN [res |-> "NotFoundException", resumes |-> res]
    ELSE LET resume == res[resumeId]
             demoted == DemoteAll(res, userId)
         IN [res |-> "OK",
             resumes |-> SaveResume(demoted, resumeId,
                                    [resume EXCEPT !.is_primary = TRUE])]

\* resumeRepository.remove(resume).  The entity declares the foreign key
\* job_applications.resume_id with onDelete: 'SET NULL'; the table itself is
\* created outside the repository's migrations, so the rule the store
\* applies is an input: "SET NULL", or "NO ACTION" (error 23503 when an
\* application refers to the resume).
OnDeleteRules == {"SET NULL", "NO ACTION"}
RemoveResume(res, id) == [r \in (DOMAIN res) \ {id} |-> res[r]]
NullResumeRefs(ap, id) ==
    [a \in DOMAIN ap |->
        IF ap[a].resume = {id} THEN [ap[a] EXCEPT !.resume = {}] ELSE ap[a]]
ReferencedBy(ap, id) == {a \in DOMAIN ap : ap[a].resume = {id}}

\* delete without its translation of error 23503
ForeignKeyOutcome_Raw(code) == "QueryFailedError"

\* the catch block of delete: code 23503 becomes ConflictException
ForeignKeyOutcome(code) ==
    IF code = "23503" THEN "ConflictException" ELSE "QueryFailedError"

deleteResumeResult(res, ap, userId, resumeId, onDelete) ==
    IF resumeId \notin ResumesOf(res, userId)
    THEN [res |-> "NotFoundException", resumes |-> res, apps |-> ap]
    ELSE IF onDelete = "NO ACTION" /\ ReferencedBy(ap, resumeId) # {}
    THEN [res |-> ForeignKeyOutcome("23503"), resumes |-> res, apps |-> ap]
    ELSE [res |-> "OK", resumes |-> RemoveResume(res, resumeId),
          apps |-> NullResumeRefs(ap, resumeId)]

CreateResume ==
    /\ \E u \in Users, p \in BOOLEAN, ok \in BOOLEAN,
          id \in ResumeIds \ DOMAIN resumes :
          LET r == createResumeResult(resumes, u, p, ok, id) IN
          /\ resumes' = r.resumes
          /\ last' = [op |-> "createResume", user |-> u, is_primary |-> p,
                      resume |-> id, res |-> r.res]
    /\ UNCHANGED <<comments, banks, companies, members, jobs, apps, now, req, proc>>

SetPrimary ==
    /\ \E u \in Users, id \in ResumeIds :
          LET r == setPrimaryResult(resumes, u, id) IN
          /\ resumes' = r.resumes
          /\ last' = [op |-> "setPrimary", user |-> u, resume |-> id, res |-> r.res]
    /\ UNCHANGED <<comments, banks, companies, members, jobs, apps, now, req, proc>>

DeleteResume ==
    /\ \E u \in Users, id \in ResumeIds, rule \in OnDeleteRules :
          LET r == deleteResumeResult(resumes, apps, u, id, rule) IN
          /\ resumes' = r.resumes
          /\ apps' = r.apps
          /\ last' = [op |-> "deleteResume", user |-> u, resume |-> id,
                      referenced |-> ReferencedBy(apps, id), res |-> r.res]
    /\ UNCHANGED <<comments, banks, companies, members, jobs, now, req, proc>>

NextResume ==
    \/ CreateResume
    \/ SetPrimary
    \/ DeleteResume

SpecResume == InitTables /\ [][NextResume]_vars

(***************************************************************************)
(* JobService.  Table job_listings: id -> [company, status, visibility,    *)
(* deadline, deleted]; deadline is {} for null or {t}; deleted stands for  *)
(* deleted_at IS NOT NULL.  Rows are never removed.                        *)
(***************************************************************************)
JobIds == {1, 2}
JobStatus == {"DRAFT", "ACTIVE", "CLOSED"}
JobVisibility == {"PUBLIC", "PRIVATE"}
\* application_deadline of a request body: absent or a time
Deadlines == {{}} \cup {{t} : t \in 1..(MaxTime - 1)}

\* the where clause without `deleted_at IS NULL`
Expired_DeletedToo(job, t, scope) ==
    /\ job.status = "ACTIVE"
    /\ job.deadline # {}
    /\ \A d \in job.deadline : d <= t
    /\ scope # {} => job.company \in scope

\* the where clause of autoCloseExpiredJobs; scope is {} or {companyId}
Expired(job, t, scope) ==
    /\ job.status = "ACTIVE"
    /\ job.deadline # {}
    /\ \A d \in job.deadline : d <= t
    /\ ~job.deleted
    /\ scope # {} => job.company \in scope

\* JobService.autoCloseExpiredJobs(companyId?) at time t
autoCloseExpiredJobs(jb, t, scope) ==
    [j \in DOMAIN jb |->
        IF Expired(jb[j], t, scope) THEN [jb[j] EXCEPT !.status = "CLOSED"] ELSE jb[j]]

\* the where clause without `deleted_at: IsNull()`
FindJob_DeletedToo(jb, companyId, jobId) ==
    {j \in DOMAIN jb : j = jobId /\ jb[j].company = companyId}

\* JobService.findOne: the job of this company, not soft-deleted
FindJob(jb, companyId, jobId) ==
    {j \in DOMAIN jb : j = jobId /\ jb[j].company = companyId /\ ~jb[j].deleted}

\* rows returned by findAll's findAndCount
CompanyJobs(jb, companyId) ==
    {j \in DOMAIN jb : jb[j].company = companyId /\ ~jb[j].deleted}

\* rows returned by findPublicJobs' findAndCount
PublicJobs(jb) ==
    {j \in DOMAIN jb : /\ jb[j].visibility = "PUBLIC"
                       /\ jb[j].status = "ACTIVE"
                       /\ ~jb[j].deleted}

\* the jobs findAll(companyId) leaves in the table at time t
findAllJobs(jb, t, companyId) == autoCloseExpiredJobs(jb, t, {companyId})

\* the jobs findPublicJobs leaves in the table at time t
findPublicJobsJobs(jb, t) == jb

SaveJob(jb, id, row) ==
    [j \in (DOMAIN jb) \cup {id} |-> IF j = id THEN row ELSE jb[j]]

\* JobService.create (without a question bank)
CreateJob ==
    /\ Cardinality(DOMAIN jobs) < Cardinality(JobIds)
    /\ \E c \in companies, st \in JobStatus, v \in JobVisibility, d \in Deadlines :
          LET id == Cardinality(DOMAIN jobs) + 1 IN
          /\ jobs' = SaveJob(jobs, id, [company |-> c, status |-> st,
                                        visibility |-> v, deadline |-> d,
                                        deleted |-> FALSE,
                                        screening_questions |-> {}])
          /\ last' = [op |-> "createJob", company |-> c, job |-> id, res |-> "OK"]
    /\ UNCHANGED <<comments, banks, companies, members, resumes, apps, now, req, proc>>

\* JobService.updateStatus
UpdateJobStatus ==
    /\ \E c \in companies, j \in JobIds, st \in JobStatus :
          IF FindJob(jobs, c, j) = {}
          THEN /\ jobs' = jobs
               /\ last' = [op |-> "updateJobStatus", company |-> c, job |-> j,
                           res |-> "NotFoundException"]
          ELSE /\ jobs' = SaveJob(jobs, j, [jobs[j] EXCEPT !.status = st])
               /\ last' = [op |-> "updateJobStatus", company |-> c, job |-> j,
                           res |-> "OK"]
    /\ UNCHANGED <<comments, banks, companies, members, resumes, apps, now, req, proc>>

\* JobService.update with a body that sets application_deadline
UpdateJobDeadline ==
    /\ \E c \in companies, j \in JobIds, d \in Deadlines \ {{}} :
          IF FindJob(jobs, c, j) = {}
          THEN /\ jobs' = jobs
               /\ last' = [op |-> "updateJob", company |-> c, job |-> j,
                           res |-> "NotFoundException"]
          ELSE /\ jobs' = SaveJob(jobs, j, [jobs[j] EXCEPT !.deadline = d])
               /\ last' = [op |-> "updateJob", company |-> c, job |-> j,
                           res |-> "OK"]
    /\ UNCHANGED <<comments, banks, companies, members, resumes, apps, now, req, proc>>

\* JobService.softDelete
SoftDeleteJob ==
    /\ \E c \in companies, j \in JobIds :
          IF FindJob(jobs, c, j) = {}
          THEN /\ jobs' = jobs
               /\ last' = [op |-> "softDeleteJob", company |-> c, job |-> j,
                           res |-> "NotFoundException"]
          ELSE /\ jobs' = SaveJob(jobs, j, [jobs[j] EXCEPT !.deleted = TRUE])
               /\ last' = [op |-> "softDeleteJob", company |-> c, job |-> j,
                           res |-> "OK"]
    /\ UNCHANGED <<comments, banks, companies, members, resumes, apps, now, req, proc>>

\* JobService.findAll(companyId): auto-close, then the listing query
FindAllJobs ==
    /\ \E c \in companies :
          LET after == findAllJobs(jobs, now, c) IN
          /\ jobs' = after
          /\ last' = [op |-> "findAll", scope |-> {c}, at |-> now, res |-> "OK",
                      before |-> jobs,
                      closed |-> {j \in DOMAIN jobs : jobs[j] # after[j]},
                      items |-> {<<j, after[j].status>> : j \in CompanyJobs(after, c)}]
    /\ UNCHANGED <<comments, banks, companies, members, resumes, apps, now, req, proc>>

\* JobService.findPublicJobs: the listing query
FindPublicJobs ==
    /\ LET after == findPublicJobsJobs(jobs, now) IN
       /\ jobs' = after
       /\ last' = [op |-> "findPublicJobs", scope |-> companies, at |-> now,
                   res |-> "OK",
                   items |-> {<<j, after[j].status>> : j \in PublicJobs(after)}]
    /\ UNCHANGED <<comments, banks, companies, members, resumes, apps, now, req, proc>>

\* time passes
Tick ==
    /\ now < MaxTime
    /\ now' = now + 1
    /\ UNCHANGED <<comments, banks, companies, members, resumes, jobs, apps, last, req, proc>>

\* two tenants, created by u1 and by u2
InitJob ==
    /\ companies = Companies
    /\ members = [m \in {<<"c1", "u1">>, <<"c2", "u2">>} |->
                    [company |-> m[1], user |-> m[2],
                     role |-> "OWNER", status |-> "ACTIVE"]]
    /\ resumes = << >>
    /\ jobs = << >>
    /\ apps = << >>
    /\ comments = << >>
    /\ banks = << >>
    /\ now = 0
    /\ last = NoLast
    /\ req = NoReq
    /\ proc = << >>

NextJob ==
    \/ CreateJob
    \/ UpdateJobStatus
    \/ UpdateJobDeadline
    \/ SoftDeleteJob
    \/ FindAllJobs
    \/ FindPublicJobs
    \/ Tick

SpecJob == InitJob /\ [][NextJob]_vars

(***************************************************************************)
(* ApplicationService.apply under concurrency.  Table job_applications:    *)
(* id -> [job, user, company, resume, status]; the unique index            *)
(* (job, user) makes the pair stand for the generated id.  apply runs in   *)
(* one transaction (READ COMMITTED): each awaited query is a step that     *)
(* sees the rows committed so far; the INSERT of save() is where the       *)
(* unique index is enforced, and the transaction commits right after it.   *)
(***************************************************************************)
AppIds == JobIds \X Users

\* jobRepo.findOne({ id, status: ACTIVE, deleted_at: IsNull() })
FindOpenJob(jb, jobId) ==
    {j \in DOMAIN jb : j = jobId /\ jb[j].status = "ACTIVE" /\ ~jb[j].deleted}

\* job.application_deadline && new Date() > new Date(job.application_deadline)
DeadlinePassed(job, t) == job.deadline # {} /\ \A d \in job.deadline : t > d

\* the resume looked up by id alone
FindOwnResume_AnyUser(res, resumeId, userId) ==
    {r \in DOMAIN res : r = resumeId}

\* resumeRepo.findOne({ id: resume_id, user: userId })
FindOwnResume(res, resumeId, userId) ==
    {r \in DOMAIN res : r = resumeId /\ res[r].user = userId}

\* appRepo.findOne({ job: job_id, user: userId })
FindApplication(ap, jobId, userId) ==
    {a \in DOMAIN ap : ap[a].job = jobId /\ ap[a].user = userId}

\* the outcome of INSERT INTO job_applications under the unique index
\* (job, user): the driver's QueryFailedError (code 23505) when a committed
\* row holds the pair
InsertOutcome(ap, jobId, userId) ==
    IF FindApplication(ap, jobId, userId) # {} THEN "QueryFailedError" ELSE "OK"

SaveApp(ap, id, row) ==
    [a \in (DOMAIN ap) \cup {id} |-> IF a = id THEN row ELSE ap[a]]

\* a request enters apply(userId, { job_id, resume_id })
ApplyStart(s) ==
    /\ proc[s].pc = "idle"
    /\ \E u \in {"u1", "u2"}, j \in JobIds, r \in ResumeIds :
          proc' = [proc EXCEPT ![s] =
                     [pc |-> "job", op |-> "apply", user |-> u, job |-> j,
                      resume |-> r, company |-> "-", prechecked |-> FALSE,
                      res |-> "-"]]
    /\ UNCHANGED <<comments, banks, companies, members, resumes, jobs, apps, now, last, req>>

\* 1. the job query and the deadline test
ApplyFindJob(s) ==
    /\ proc[s].pc = "job"
    /\ IF FindOpenJob(jobs, proc[s].job) = {}
       THEN Finish(s, "NotFoundException")
       ELSE IF DeadlinePassed(jobs[proc[s].job], now)
       THEN Finish(s, "BadRequestException:deadline")
       ELSE proc' = [proc EXCEPT ![s] =
                       [@ EXCEPT !.pc = "resume",
                                 !.company = jobs[proc[s].job].company]]
    /\ UNCHANGED <<comments, banks, companies, members, resumes, jobs, apps, now, last, req>>

\* 2. the resume query
ApplyFindResume(s) ==
    /\ proc[s].pc = "resume"
    /\ IF FindOwnResume(resumes, proc[s].resume, proc[s].user) = {}
       THEN Finish(s, "ForbiddenException")
       ELSE proc' = [proc EXCEPT ![s] = [@ EXCEPT !.pc = "existing"]]
    /\ UNCHANGED <<comments, banks, companies, members, resumes, jobs, apps, now, last, req>>

\* 3. the duplicate pre-check
ApplyFindExisting(s) ==
    /\ proc[s].pc = "existing"
    /\ IF FindApplication(apps, proc[s].job, proc[s].user) # {}
       THEN Finish(s, "BadRequestException")
       ELSE proc' = [proc EXCEPT ![s] =
                       [@ EXCEPT !.pc = "insert", !.prechecked = TRUE]]
    /\ UNCHANGED <<comments, banks, companies, members, resumes, jobs, apps, now, last, req>>

\* 4. appRepo.save(application) and the commit; an exception of save leaves
\* the transaction callback unhandled and rolls the transaction back
ApplySave(s) ==
    /\ proc[s].pc = "insert"
    /\ LET o == InsertOutcome(apps, proc[s].job, proc[s].user) IN
       /\ apps' = IF o = "OK"
                  THEN SaveApp(apps, <<proc[s].job, proc[s].user>>,
                          [job |-> proc[s].job, user |-> proc[s].user,
                           company |-> proc[s].company,
                           resume |-> {proc[s].resume},
                           status |-> "APPLIED", status_changed_by |-> {}])
                  ELSE apps
       /\ Finish(s, o)
    /\ UNCHANGED <<comments, banks, companies, members, resumes, jobs, now, last, req>>

\* tenant c1 with two ACTIVE postings without deadline; u1 and u2 own one
\* resume each
InitApplyConc ==
    /\ companies = {"c1"}
    /\ members = [m \in {<<"c1", "u3">>} |->
                    [company |-> "c1", user |-> "u3",
                     role |-> "OWNER", status |-> "ACTIVE"]]
    /\ resumes = [r \in {1, 2} |->
                    [user |-> IF r = 1 THEN "u1" ELSE "u2", is_primary |-> TRUE]]
    /\ jobs = [j \in JobIds |->
                 [company |-> "c1", status |-> "ACTIVE", visibility |-> "PUBLIC",
                  deadline |-> {}, deleted |-> FALSE,
                  screening_questions |-> {}]]
    /\ apps = << >>
    /\ comments = << >>
    /\ banks = << >>
    /\ now = 0
    /\ last = NoLast
    /\ req = NoReq
    /\ proc = [s \in Slots |-> IdleProc]

NextApplyConc ==
    \E s \in Slots :
       \/ ApplyStart(s)
       \/ ApplyFindJob(s)
       \/ ApplyFindResume(s)
       \/ ApplyFindExisting(s)
       \/ ApplySave(s)

SpecApplyConc == InitApplyConc /\ [][NextApplyConc]_vars

(***************************************************************************)
(* ApplicationService called one request at a time, with ResumeService's   *)
(* delete.  Table application_comments: id -> [app, company, user,         *)
(* visible]; visible stands for visible_to_candidate.                      *)
(***************************************************************************)
ApplicationStatus == {"APPLIED", "ACCEPTED", "REJECTED", "WITHDRAWN"}
\* the statuses UpdateApplicationStatusSchema lets through
UpdateStatuses == {"ACCEPTED", "REJECTED"}
CommentIds == {1}
Candidates == {"u1", "u2"}

\* apply without its duplicate pre-check
DuplicateFound_Never(existing) == FALSE

\* `if (existing)` of the duplicate pre-check
DuplicateFound(existing) == existing # {}

\* ApplicationService.apply: the transaction run alone
applyResult(jb, res, ap, t, userId, jobId, resumeId) ==
    IF FindOpenJob(jb, jobId) = {}
    THEN [res |-> "NotFoundException", apps |-> ap]
    ELSE IF DeadlinePassed(jb[jobId], t)
    THEN [res |-> "BadRequestException:deadline", apps |-> ap]
    ELSE IF FindOwnResume(res, resumeId, userId) = {}
    THEN [res |-> "ForbiddenException", apps |-> ap]
    ELSE IF DuplicateFound(FindApplication(ap, jobId, userId))
    THEN [res |-> "BadRequestException", apps |-> ap]
    ELSE IF InsertOutcome(ap, jobId, userId) # "OK"
    THEN [res |-> InsertOutcome(ap, jobId, userId), apps |-> ap]
    ELSE [res |-> "OK",
          apps |-> SaveApp(ap, <<jobId, userId>>,
                      [job |-> jobId, user |-> userId,
                       company |-> jb[jobId].company,
                       resume |-> {resumeId},
                       status |-> "APPLIED", status_changed_by |-> {}])]

apply(userId, jobId, resumeId) ==
    LET r == applyResult(jobs, resumes, apps, now, userId, jobId, resumeId) IN
    /\ apps' = r.apps
    /\ last' = [op |-> "apply", user |-> userId, job |-> jobId,
                resume |-> resumeId, res |-> r.res]

\* applicationRepository.findOne({ id: applicationId, user: userId })
FindOwnApplication(ap, appId, userId) ==
    {a \in DOMAIN ap : a = appId /\ ap[a].user = userId}

\* the application looked up by id alone
FindCompanyApplication_AnyCompany(ap, appId, companyId) ==
    {a \in DOMAIN ap : a = appId}

\* applicationRepository.findOne({ id: applicationId, company: companyId })
FindCompanyApplication(ap, appId, companyId) ==
    {a \in DOMAIN ap : a = appId /\ ap[a].company = companyId}

\* withdraw without its ACCEPTED test
WithdrawBlocked_WithdrawnOnly(status) == status = "WITHDRAWN"

\* the two status tests of withdraw
WithdrawBlocked(status) == status \in {"ACCEPTED", "WITHDRAWN"}

\* ApplicationService.withdraw
withdrawResult(ap, userId, appId) ==
    IF FindOwnApplication(ap, appId, userId) = {}
    THEN [res |-> "NotFoundException", apps |-> ap]
    ELSE IF WithdrawBlocked(ap[appId].status)
    THEN [res |-> "BadRequestException", apps |-> ap]
    ELSE [res |-> "OK",
          apps |-> SaveApp(ap, appId, [ap[appId] EXCEPT !.status = "WITHDRAWN"])]

withdraw(userId, appId) ==
    LET r == withdrawResult(apps, userId, appId) IN
    /\ apps' = r.apps
    /\ last' = [op |-> "withdraw", user |-> userId, app |-> appId, res |-> r.res]

\* updateStatus without its WITHDRAWN test
UpdateBlocked_Never(status) == FALSE

\* the status test of updateStatus
UpdateBlocked(status) == status = "WITHDRAWN"

\* ApplicationService.updateStatus
updateStatusResult(ap, companyId, appId, status, changedBy) ==
    IF FindCompanyApplication(ap, appId, companyId) = {}
    THEN [res |-> "NotFoundException", apps |-> ap]
    ELSE IF UpdateBlocked(ap[appId].status)
    THEN [res |-> "BadRequestException", apps |-> ap]
    ELSE [res |-> "OK",
          apps |-> SaveApp(ap, appId,
                      [ap[appId] EXCEPT !.status = status,
                                        !.status_changed_by = {changedBy}])]

updateStatus(companyId, appId, status, changedBy) ==
    LET r == updateStatusResult(apps, companyId, appId, status, changedBy) IN
    /\ apps' = r.apps
    /\ last' = [op |-> "updateStatus", company |-> companyId, app |-> appId,
                status |-> status, user |-> changedBy, res |-> r.res]

SaveComment(cm, id, row) ==
    [c \in (DOMAIN cm) \cup {id} |-> IF c = id THEN row ELSE cm[c]]

\* ApplicationService.addComment; id is the uuid of the inserted row
addCommentResult(ap, cm, companyId, appId, userId, visible, id) ==
    IF FindCompanyApplication(ap, appId, companyId) = {}
    THEN [res |-> "NotFoundException", comments |-> cm]
    ELSE [res |-> "OK",
          comments |-> SaveComment(cm, id,
                          [app |-> appId, company |-> companyId,
                           user |-> userId, visible |-> visible])]

addComment(companyId, appId, userId, visible, id) ==
    LET r == addCommentResult(apps, comments, companyId, appId, userId,
                              visible, id) IN
    /\ comments' = r.comments
    /\ last' = [op |-> "addComment", company |-> companyId, app |-> appId,
                user |-> userId, visible |-> visible, res |-> r.res]

\* the relation 'comments' loaded with an application
CommentsOf(cm, appId) == {c \in DOMAIN cm : cm[c].app = appId}

\* ApplicationService.getCandidateApplications: the response items, each
\* with the comments the mapping puts into it
getCandidateApplications(ap, cm, userId) ==
    {[app |-> a, comments |-> CommentsOf(cm, a)] :
        a \in {x \in DOMAIN ap : ap[x].user = userId}}

Apply ==
    /\ \E u \in Candidates, j \in JobIds, r \in ResumeIds : apply(u, j, r)
    /\ UNCHANGED <<comments, banks, companies, members, resumes, jobs, now,
                   req, proc>>

Withdraw ==
    /\ \E u \in Candidates, a \in AppIds : withdraw(u, a)
    /\ UNCHANGED <<comments, banks, companies, members, resumes, jobs, now,
                   req, proc>>

\* the caller is the member the guards let through
UpdateApplicationStatus ==
    /\ \E c \in companies, a \in AppIds, st \in UpdateStatuses :
          updateStatus(c, a, st, "u3")
    /\ UNCHANGED <<comments, banks, companies, members, resumes, jobs, now,
                   req, proc>>

AddComment ==
    /\ Cardinality(DOMAIN comments) < Cardinality(CommentIds)
    /\ \E c \in companies, a \in AppIds, v \in BOOLEAN :
          addComment(c, a, "u3", v, Cardinality(DOMAIN comments) + 1)
    /\ UNCHANGED <<banks, companies, members, resumes, jobs, apps, now,
                   req, proc>>

GetCandidateApplications ==
    /\ \E u \in Candidates :
          last' = [op |-> "getCandidateApplications", user |-> u, res |-> "OK",
                   items |-> getCandidateApplications(apps, comments, u)]
    /\ UNCHANGED <<comments, banks, companies, members, resumes, jobs, apps,
                   now, req, proc>>

\* tenant c1 (OWNER u3) with an ACTIVE and a CLOSED posting; the candidates
\* u1 and u2 own one resume each
InitApp ==
    /\ companies = {"c1"}
    /\ members = [m \in {<<"c1", "u3">>} |->
                    [company |-> "c1", user |-> "u3",
                     role |-> "OWNER", status |-> "ACTIVE"]]
    /\ resumes = [r \in {1, 2} |->
                    [user |-> IF r = 1 THEN "u1" ELSE "u2", is_primary |-> TRUE]]
    /\ jobs = [j \in JobIds |->
                 [company |-> "c1",
                  status |-> IF j = 1 THEN "ACTIVE" ELSE "CLOSED",
                  visibility |-> "PUBLIC", deadline |-> {}, deleted |-> FALSE,
                  screening_questions |-> {}]]
    /\ apps = << >>
    /\ comments = << >>
    /\ banks = << >>
    /\ now = 0
    /\ last = NoLast
    /\ req = NoReq
    /\ proc = << >>

NextApp ==
    \/ Apply
    \/ Withdraw
    \/ UpdateApplicationStatus
    \/ AddComment
    \/ GetCandidateApplications
    \/ DeleteResume

SpecApp == InitApp /\ [][NextApp]_vars

(***************************************************************************)
(* QuestionBankService and the question-bank snapshot of JobService.create.*)
(* Table question_banks: id -> [company, questions]; questions stands for  *)
(* the value of questions_json.  A job row's screening_questions is {} for *)
(* null or {value}.                                                        *)
(***************************************************************************)
BankIds == {1, 2}
\* values of questions_json in request bodies
Questions == {"q1", "q2"}

SaveBank(bk, id, row) ==
    [b \in (DOMAIN bk) \cup {id} |-> IF b = id THEN row ELSE bk[b]]

\* qbRepository.findOne({ id: qbId, company: companyId })
FindBank(bk, companyId, qbId) ==
    {b \in DOMAIN bk : b = qbId /\ bk[b].company = companyId}

\* QuestionBankService.update with a body that sets questions_json
updateBankResult(bk, companyId, qbId, questions) ==
    IF FindBank(bk, companyId, qbId) = {}
    THEN [res |-> "NotFoundException", banks |-> bk]
    ELSE [res |-> "OK",
          banks |-> SaveBank(bk, qbId, [bk[qbId] EXCEPT !.questions = questions])]

\* JobService.create; bankRef is {} (no question_bank_id) or {id}
createJobResult(jb, bk, companyId, status, visibility, deadline, bankRef, id) ==
    IF bankRef # {} /\ \A b \in bankRef : FindBank(bk, companyId, b) = {}
    THEN [res |-> "NotFoundException", jobs |-> jb]
    ELSE [res |-> "OK",
          jobs |-> SaveJob(jb, id,
                      [company |-> companyId, status |-> status,
                       visibility |-> visibility, deadline |-> deadline,
                       deleted |-> FALSE,
                       screening_questions |->
                          {bk[b].questions : b \in bankRef}])]

\* update re-reading the bank named by question_bank_id
MergedSnapshot_FromBank(job, bk, bankRef) ==
    IF bankRef \subseteq DOMAIN bk
    THEN {bk[b].questions : b \in bankRef} ELSE job.screening_questions

\* jobRepository.merge(job, { question_bank_id }): question_bank_id is not a
\* column of job_listings, the snapshot column is not in the body
MergedSnapshot(job, bk, bankRef) == job.screening_questions

\* JobService.update with a body that sets question_bank_id
updateJobBankResult(jb, bk, companyId, jobId, bankRef) ==
    IF FindJob(jb, companyId, jobId) = {}
    THEN [res |-> "NotFoundException", jobs |-> jb]
    ELSE [res |-> "OK",
          jobs |-> SaveJob(jb, jobId,
                      [jb[jobId] EXCEPT !.screening_questions =
                                           MergedSnapshot(jb[jobId], bk, bankRef)])]

\* QuestionBankService.create
CreateBank ==
    /\ Cardinality(DOMAIN banks) < Cardinality(BankIds)
    /\ \E c \in companies, q \in Questions :
          /\ banks' = SaveBank(banks, Cardinality(DOMAIN banks) + 1,
                               [company |-> c, questions |-> q])
          /\ last' = [op |-> "createBank", company |-> c, res |-> "OK"]
    /\ UNCHANGED <<comments, companies, members, resumes, jobs, apps, now,
                   req, proc>>

UpdateBank ==
    /\ \E c \in companies, b \in BankIds, q \in Questions :
          LET r == updateBankResult(banks, c, b, q) IN
          /\ banks' = r.banks
          /\ last' = [op |-> "updateBank", company |-> c, bank |-> b,
                      res |-> r.res]
    /\ UNCHANGED <<comments, companies, members, resumes, jobs, apps, now,
                   req, proc>>

\* JobService.create with a question_bank_id
CreateJobFromBank ==
    /\ Cardinality(DOMAIN jobs) < Cardinality(JobIds)
    /\ \E c \in companies, b \in BankIds, st \in JobStatus, d \in Deadlines :
          LET id == Cardinality(DOMAIN jobs) + 1
              r == createJobResult(jobs, banks, c, st, "PUBLIC", d, {b}, id)
          IN
          /\ jobs' = r.jobs
          /\ last' = [op |-> "createJob", company |-> c, job |-> id,
                      bank |-> b, res |-> r.res]
    /\ UNCHANGED <<comments, banks, companies, members, resumes, apps, now,
                   req, proc>>

UpdateJobBank ==
    /\ \E c \in companies, j \in JobIds, b \in BankIds :
          LET r == updateJobBankResult(jobs, banks, c, j, {b}) IN
          /\ jobs' = r.jobs
          /\ last' = [op |-> "updateJob", company |-> c, job |-> j,
                      res |-> r.res]
    /\ UNCHANGED <<comments, banks, companies, members, resumes, apps, now,
                   req, proc>>

\* JobService.findOne: the posting as read, with its snapshot
FindOneJob ==
    /\ \E c \in companies, j \in JobIds :
          last' = IF FindJob(jobs, c, j) = {}
                  THEN [op |-> "findOne", company |-> c, job |-> j,
                        res |-> "NotFoundException", snapshot |-> {}]
                  ELSE [op |-> "findOne", company |-> c, job |-> j,
                        res |-> "OK",
                        snapshot |-> jobs[j].screening_questions]
    /\ UNCHANGED <<comments, banks, companies, members, resumes, jobs, apps,
                   now, req, proc>>

\* tenant c1 created by u1
InitBank ==
    /\ companies = {"c1"}
    /\ members = [m \in {<<"c1", "u1">>} |->
                    [company |-> "c1", user |-> "u1",
                     role |-> "OWNER", status |-> "ACTIVE"]]
    /\ resumes = << >>
    /\ jobs = << >>
    /\ apps = << >>
    /\ comments = << >>
    /\ banks = << >>
    /\ now = 0
    /\ last = NoLast
    /\ req = NoReq
    /\ proc = << >>

NextBank ==
    \/ CreateBank
    \/ UpdateBank
    \/ CreateJobFromBank
    \/ UpdateJobBank
    \/ UpdateJobStatus
    \/ UpdateJobDeadline
    \/ SoftDeleteJob
    \/ FindAllJobs
    \/ FindOneJob
    \/ Tick

SpecBank == InitBank /\ [][NextBank]_vars

(***************************************************************************)
(* Tenant scoping: one tenant-scoped mutation of MemberService, JobService *)
(* or ApplicationService, or one withdraw, called with the ids of rows of  *)
(* either tenant through the route of either tenant.  A handler's outcome  *)
(* depends on the tables and its arguments only, so each behaviour is one  *)
(* call on one database of the family ScopeDatabases.                      *)
(***************************************************************************)
\* two tenants: c1 (OWNER u1, question bank 1) and c2 (OWNER u2, a second
\* membership u3, question bank 2, posting 1); u1 has applied to posting 1
\* with resume 1.  ms, js, as: the status of u3's membership, of the posting
\* and of the application; r: u3's role; del: the posting is soft-deleted.
ScopeDatabase(r, ms, js, del, as) ==
    /\ companies = Companies
    /\ members = [m \in {<<"c1", "u1">>, <<"c2", "u2">>, <<"c2", "u3">>} |->
                    [company |-> m[1], user |-> m[2],
                     role |-> IF m[2] = "u3" THEN r ELSE "OWNER",
                     status |-> IF m[2] = "u3" THEN ms ELSE "ACTIVE"]]
    /\ resumes = [x \in {1} |-> [user |-> "u1", is_primary |-> TRUE]]
    /\ jobs = [j \in {1} |->
                 [company |-> "c2", status |-> js, visibility |-> "PUBLIC",
                  deadline |-> {}, deleted |-> del,
                  screening_questions |-> {}]]
    /\ apps = [a \in {<<1, "u1">>} |->
                 [job |-> 1, user |-> "u1", company |-> "c2", resume |-> {1},
                  status |-> as,
                  status_changed_by |->
                     IF as \in UpdateStatuses THEN {"u2"} ELSE {}]]
    /\ comments = << >>
    /\ banks = [b \in BankIds |->
                  [company |-> IF b = 1 THEN "c1" ELSE "c2",
                   questions |-> IF b = 1 THEN "q1" ELSE "q2"]]

InitScope ==
    /\ \E r \in CompanyRole, ms \in {"ACTIVE", "REVOKED"}, js \in JobStatus,
          del \in BOOLEAN, as \in ApplicationStatus :
          ScopeDatabase(r, ms, js, del, as)
    /\ now = 0
    /\ last = NoLast
    /\ req = NoReq
    /\ proc = << >>

\* no call has been made yet on this database
FirstCall == last = NoLast

NextScope ==
    \/ FirstCall /\ UpdateMemberRole
    \/ FirstCall /\ RevokeMember
    \/ FirstCall /\ TransferOwnership
    \/ FirstCall /\ CreateJobFromBank
    \/ FirstCall /\ UpdateJobBank
    \/ FirstCall /\ UpdateJobStatus
    \/ FirstCall /\ SoftDeleteJob
    \/ FirstCall /\ UpdateApplicationStatus
    \/ FirstCall /\ AddComment
    \/ FirstCall /\ Withdraw

SpecScope == InitScope /\ [][NextScope]_vars

(***************************************************************************)
(* The denormalized company_id of job_applications and                     *)
(* application_comments: two tenants with one posting each, the candidate  *)
(* u1, and u3 a member of both tenants.                                    *)
(***************************************************************************)
\* posting 1 belongs to c1, posting 2 to c2, both ACTIVE; u1 owns resume 1
InitDenorm ==
    /\ companies = Companies
    /\ members = [m \in {<<"c1", "u3">>, <<"c2", "u3">>} |->
                    [company |-> m[1], user |-> m[2],
                     role |-> "OWNER", status |-> "ACTIVE"]]
    /\ resumes = [r \in {1} |-> [user |-> "u1", is_primary |-> TRUE]]
    /\ jobs = [j \in JobIds |->
                 [company |-> IF j = 1 THEN "c1" ELSE "c2",
                  status |-> "ACTIVE", visibility |-> "PUBLIC",
                  deadline |-> {}, deleted |-> FALSE,
                  screening_questions |-> {}]]
    /\ apps = << >>
    /\ comments = << >>
    /\ banks = << >>
    /\ now = 0
    /\ last = NoLast
    /\ req = NoReq
    /\ proc = << >>

NextDenorm ==
    \/ Apply
    \/ Withdraw
    \/ UpdateApplicationStatus
    \/ AddComment
    \/ UpdateJobBank
    \/ SoftDeleteJob

SpecDenorm == InitDenorm /\ [][NextDenorm]_vars

(***************************************************************************)
(* JobService together with ApplicationService.apply and                   *)
(* ResumeService.delete: the posting of tenant c1 as the tenant changes,   *)
(* reads and soft-deletes it while the candidate u1 applies.               *)
(***************************************************************************)
\* tenant c1 with posting 1, ACTIVE and PUBLIC (no posting has id 2);
\* resume 1 belongs to the candidate u1, resume 2 to u3
InitPosting ==
    /\ companies = {"c1"}
    /\ members = [m \in {<<"c1", "u3">>} |->
                    [company |-> "c1", user |-> "u3",
                     role |-> "OWNER", status |-> "ACTIVE"]]
    /\ resumes = [r \in {1, 2} |->
                    [user |-> IF r = 1 THEN "u1" ELSE "u3", is_primary |-> TRUE]]
    /\ jobs = [j \in {1} |->
                 [company |-> "c1", status |-> "ACTIVE", visibility |-> "PUBLIC",
                  deadline |-> {}, deleted |-> FALSE,
                  screening_questions |-> {}]]
    /\ apps = << >>
    /\ comments = << >>
    /\ banks = << >>
    /\ now = 0
    /\ last = NoLast
    /\ req = NoReq
    /\ proc = << >>

NextPosting ==
    \/ Apply
    \/ DeleteResume
    \/ UpdateJobStatus
    \/ UpdateJobDeadline
    \/ SoftDeleteJob
    \/ FindAllJobs
    \/ FindOneJob
    \/ FindPublicJobs
    \/ Tick

SpecPosting == InitPosting /\ [][NextPosting]_vars

(***************************************************************************)
(* CompanyService.createCompany step by step.  The two saves run inside    *)
(* dataSource.transaction: their rows are held by the transaction until    *)
(* COMMIT, and an exception thrown by a save (ok = FALSE: the store        *)
(* refuses the insert or the connection is lost) rolls the transaction     *)
(* back.  companies and members are the committed tables, which every      *)
(* other connection reads.  The uuid of the new company is modelled by the *)
(* slot that runs the call; saved counts the saves the call has made.      *)
(***************************************************************************)
\* rows saved without a transaction are committed by the save itself
VisibleBeforeCommit_Autocommit(rows) == rows

\* the rows of an open transaction that other connections see: none
VisibleBeforeCommit(rows) == {}

\* the membership createCompany creates for the creator
OwnerMembership(companyId, userId) ==
    [company |-> companyId, user |-> userId, role |-> "OWNER", status |-> "ACTIVE"]

\* a request enters createCompany(dto, userId); the transaction begins
CreateCompanyStart(s) ==
    /\ proc[s].pc = "idle"
    /\ \E u \in Users :
          proc' = [proc EXCEPT ![s] =
                     [pc |-> "company", op |-> "createCompany", user |-> u,
                      company |-> s, saved |-> 0, res |-> "-"]]
    /\ UNCHANGED <<comments, banks, companies, members, resumes, jobs, apps,
                   now, last, req>>

\* 1. await companyRepo.save(company)
CreateCompanySave(s) ==
    /\ proc[s].pc = "company"
    /\ \E ok \in BOOLEAN :
          IF ok
          THEN /\ companies' = companies \cup VisibleBeforeCommit({proc[s].company})
               /\ proc' = [proc EXCEPT ![s] =
                             [@ EXCEPT !.pc = "member", !.saved = 1]]
          ELSE /\ companies' = companies
               /\ Finish(s, "QueryFailedError")
    /\ UNCHANGED <<comments, banks, members, resumes, jobs, apps, now, last, req>>

\* 2. await memberRepo.save(membership); an exception ends the callback and
\* the transaction is rolled back
CreateMemberSave(s) ==
    /\ proc[s].pc = "member"
    /\ \E ok \in BOOLEAN :
          IF ok
          THEN /\ members' =
                     [m \in DOMAIN members \cup
                            VisibleBeforeCommit({<<proc[s].company, proc[s].user>>}) |->
                         IF m \in DOMAIN members THEN members[m]
                         ELSE OwnerMembership(proc[s].company, proc[s].user)]
               /\ proc' = [proc EXCEPT ![s] =
                             [@ EXCEPT !.pc = "commit", !.saved = 2]]
          ELSE /\ members' = members
               /\ Finish(s, "QueryFailedError")
    /\ UNCHANGED <<comments, banks, companies, resumes, jobs, apps, now, last, req>>

\* the callback returns and the transaction commits both rows
CreateCommit(s) ==
    /\ proc[s].pc = "commit"
    /\ companies' = companies \cup {proc[s].company}
    /\ members' = SaveMember(members, <<proc[s].company, proc[s].user>>,
                             OwnerMembership(proc[s].company, proc[s].user))
    /\ Finish(s, "OK")
    /\ UNCHANGED <<comments, banks, resumes, jobs, apps, now, last, req>>

\* empty tables, no call in flight
InitBootstrap ==
    /\ companies = {}
    /\ members = << >>
    /\ resumes = << >>
    /\ jobs = << >>
    /\ apps = << >>
    /\ comments = << >>
    /\ banks = << >>
    /\ now = 0
    /\ last = NoLast
    /\ req = NoReq
    /\ proc = [s \in Slots |-> IdleProc]

NextBootstrap ==
    \E s \in Slots :
       \/ CreateCompanyStart(s)
       \/ CreateCompanySave(s)
       \/ CreateMemberSave(s)
       \/ CreateCommit(s)

SpecBootstrap == InitBootstrap /\ [][NextBootstrap]_vars

(***************************************************************************)
(* Concurrent withdraw / updateStatus calls on one application.  Neither   *)
(* method opens a transaction or takes a lock: findOne with the status     *)
(* tests is one step, save another, and other requests run in between.     *)
(* save writes the loaded entity: the status the method has set and, for   *)
(* updateStatus, status_changed_by (withdraw loads no relation, so leaves  *)
(* that column alone).                                                     *)
(***************************************************************************)
\* the application of u1 to posting 1 of tenant c1
TheApp == <<1, "u1">>

\* a request enters withdraw(userId, applicationId)
WithdrawStart(s) ==
    /\ proc[s].pc = "idle"
    /\ proc' = [proc EXCEPT ![s] =
                  [pc |-> "find", op |-> "withdraw", user |-> "u1",
                   app |-> TheApp, status |-> "WITHDRAWN", loaded |-> "-",
                   res |-> "-"]]
    /\ UNCHANGED <<comments, banks, companies, members, resumes, jobs, apps,
                   now, last, req>>

\* a request enters updateStatus(companyId, applicationId, status, changedBy)
UpdateStatusStart(s) ==
    /\ proc[s].pc = "idle"
    /\ \E st \in UpdateStatuses :
          proc' = [proc EXCEPT ![s] =
                     [pc |-> "find", op |-> "updateStatus", user |-> "u3",
                      app |-> TheApp, status |-> st, loaded |-> "-",
                      res |-> "-"]]
    /\ UNCHANGED <<comments, banks, companies, members, resumes, jobs, apps,
                   now, last, req>>

\* await applicationRepository.findOne(...), then the status tests of withdraw
WithdrawFind(s) ==
    /\ proc[s].pc = "find" /\ proc[s].op = "withdraw"
    /\ IF FindOwnApplication(apps, proc[s].app, proc[s].user) = {}
       THEN Finish(s, "NotFoundException")
       ELSE IF WithdrawBlocked(apps[proc[s].app].status)
       THEN proc' = [proc EXCEPT ![s] =
                       [@ EXCEPT !.loaded = apps[proc[s].app].status,
                                 !.pc = "done", !.res = "BadRequestException"]]
       ELSE proc' = [proc EXCEPT ![s] =
                       [@ EXCEPT !.loaded = apps[proc[s].app].status,
                                 !.pc = "save"]]
    /\ UNCHANGED <<comments, banks, companies, members, resumes, jobs, apps,
                   now, last, req>>

\* await applicationRepository.findOne(...), then the status test of updateStatus
UpdateStatusFind(s) ==
    /\ proc[s].pc = "find" /\ proc[s].op = "updateStatus"
    /\ IF FindCompanyApplication(apps, proc[s].app, "c1") = {}
       THEN Finish(s, "NotFoundException")
       ELSE IF UpdateBlocked(apps[proc[s].app].status)
       THEN proc' = [proc EXCEPT ![s] =
                       [@ EXCEPT !.loaded = apps[proc[s].app].status,
                                 !.pc = "done", !.res = "BadRequestException"]]
       ELSE proc' = [proc EXCEPT ![s] =
                       [@ EXCEPT !.loaded = apps[proc[s].app].status,
                                 !.pc = "save"]]
    /\ UNCHANGED <<comments, banks, companies, members, resumes, jobs, apps,
                   now, last, req>>

\* application.status = WITHDRAWN; await applicationRepository.save(application)
WithdrawSave(s) ==
    /\ proc[s].pc = "save" /\ proc[s].op = "withdraw"
    /\ apps' = SaveApp(apps, proc[s].app,
                       [apps[proc[s].app] EXCEPT !.status = "WITHDRAWN"])
    /\ Finish(s, "OK")
    /\ UNCHANGED <<comments, banks, companies, members, resumes, jobs, now,
                   last, req>>

\* application.status = status; application.status_changed_by = changedBy;
\* await applicationRepository.save(application)
UpdateStatusSave(s) ==
    /\ proc[s].pc = "save" /\ proc[s].op = "updateStatus"
    /\ apps' = SaveApp(apps, proc[s].app,
                       [apps[proc[s].app] EXCEPT
                           !.status = proc[s].status,
                           !.status_changed_by = {proc[s].user}])
    /\ Finish(s, "OK")
    /\ UNCHANGED <<comments, banks, companies, members, resumes, jobs, now,
                   last, req>>

\* tenant c1 (OWNER u3) with an ACTIVE posting to which u1 has applied
InitStatusConc ==
    /\ companies = {"c1"}
    /\ members = [m \in {<<"c1", "u3">>} |->
                    [company |-> "c1", user |-> "u3",
                     role |-> "OWNER", status |-> "ACTIVE"]]
    /\ resumes = [r \in {1} |-> [user |-> "u1", is_primary |-> TRUE]]
    /\ jobs = [j \in {1} |->
                 [company |-> "c1", status |-> "ACTIVE", visibility |-> "PUBLIC",
                  deadline |-> {}, deleted |-> FALSE,
                  screening_questions |-> {}]]
    /\ apps = [a \in {TheApp} |->
                 [job |-> 1, user |-> "u1", company |-> "c1", resume |-> {1},
                  status |-> "APPLIED", status_changed_by |-> {}]]
    /\ comments = << >>
    /\ banks = << >>
    /\ now = 0
    /\ last = NoLast
    /\ req = NoReq
    /\ proc = [s \in Slots |-> IdleProc]

NextStatusConc ==
    \E s \in Slots :
       \/ WithdrawStart(s)
       \/ UpdateStatusStart(s)
       \/ WithdrawFind(s)
       \/ UpdateStatusFind(s)
       \/ WithdrawSave(s)
       \/ UpdateStatusSave(s)

SpecStatusConc == InitStatusConc /\ [][NextStatusConc]_vars

(***************************************************************************)
(* Concurrent primary-resume calls of one actor.  create (is_primary true) *)
(* and setPrimary each run in a transaction of their own at the store's    *)
(* default isolation level, READ COMMITTED: a statement reads the rows     *)
(* committed when it starts plus its transaction's own writes; an UPDATE   *)
(* locks the rows it writes until its transaction ends, waits for a row    *)
(* another open transaction has locked and then re-tests that row against  *)
(* its WHERE clause; rows committed after the statement started are not    *)
(* seen by it.  resumes is the committed table; a transaction's writes are *)
(* held in proc[s] (demoted, resume) until its commit.                     *)
(***************************************************************************)
\* the uuid of the row the create call of slot s inserts
NewResumeId(s) == 2 + s

\* the rows the demoting UPDATE of a call selects
DemoteTargets(res, userId, op) ==
    IF op = "create" THEN Primaries(res, userId) ELSE ResumesOf(res, userId)

\* the transaction of slot t has written rows and not ended
InTx(t) == proc[t].pc \in {"write", "commit"}

\* rows locked by open transactions other than that of slot s
LockedByOthers(s) ==
    UNION {proc[t].demoted : t \in {x \in Slots \ {s} : InTx(x)}}

\* a request enters create(userId, file, title, true); count and upload done
CreatePrimaryStart(s) ==
    /\ proc[s].pc = "idle"
    /\ proc' = [proc EXCEPT ![s] =
                  [pc |-> "demote", op |-> "create", user |-> "u1",
                   resume |-> NewResumeId(s), targets |-> {}, demoted |-> {},
                   res |-> "-"]]
    /\ UNCHANGED <<comments, banks, companies, members, resumes, jobs, apps,
                   now, last, req>>

\* a request enters setPrimary(userId, resumeId)
SetPrimaryStart(s) ==
    /\ proc[s].pc = "idle"
    /\ \E r \in DOMAIN resumes :
          proc' = [proc EXCEPT ![s] =
                     [pc |-> "find", op |-> "setPrimary", user |-> "u1",
                      resume |-> r, targets |-> {}, demoted |-> {},
                      res |-> "-"]]
    /\ UNCHANGED <<comments, banks, companies, members, resumes, jobs, apps,
                   now, last, req>>

\* setPrimary: await resumeRepo.findOne({ id, user })
SetPrimaryFind(s) ==
    /\ proc[s].pc = "find"
    /\ IF proc[s].resume \notin ResumesOf(resumes, proc[s].user)
       THEN Finish(s, "NotFoundException")
       ELSE proc' = [proc EXCEPT ![s] = [@ EXCEPT !.pc = "demote"]]
    /\ UNCHANGED <<comments, banks, companies, members, resumes, jobs, apps,
                   now, last, req>>

\* the demoting UPDATE starts: it selects among the rows committed now
DemoteSelect(s) ==
    /\ proc[s].pc = "demote"
    /\ proc' = [proc EXCEPT ![s] =
                  [@ EXCEPT !.pc = "locks",
                            !.targets = DemoteTargets(resumes, proc[s].user,
                                                      proc[s].op)]]
    /\ UNCHANGED <<comments, banks, companies, members, resumes, jobs, apps,
                   now, last, req>>

\* the demoting UPDATE ends: once no selected row is locked by another
\* transaction it locks and writes the selected rows that still match
DemoteWrite(s) ==
    /\ proc[s].pc = "locks"
    /\ proc[s].targets \cap LockedByOthers(s) = {}
    /\ proc' = [proc EXCEPT ![s] =
                  [@ EXCEPT !.pc = "write",
                            !.demoted = proc[s].targets \cap
                                        DemoteTargets(resumes, proc[s].user,
                                                      proc[s].op)]]
    /\ UNCHANGED <<comments, banks, companies, members, resumes, jobs, apps,
                   now, last, req>>

\* await resumeRepo.save(resume): the INSERT of create, or the UPDATE of
\* setPrimary that sets is_primary on the selected row
PrimaryWrite(s) ==
    /\ proc[s].pc = "write"
    /\ proc[s].op = "setPrimary" => proc[s].resume \notin LockedByOthers(s)
    /\ proc' = [proc EXCEPT ![s] =
                  [@ EXCEPT !.pc = "commit",
                            !.demoted = IF proc[s].op = "setPrimary"
                                        THEN @ \cup {proc[s].resume} ELSE @]]
    /\ UNCHANGED <<comments, banks, companies, members, resumes, jobs, apps,
                   now, last, req>>

\* the callback returns and the transaction commits its writes
PrimaryCommit(s) ==
    /\ proc[s].pc = "commit"
    /\ resumes' =
          [r \in DOMAIN resumes \cup {proc[s].resume} |->
              IF r = proc[s].resume
              THEN [user |-> proc[s].user, is_primary |-> TRUE]
              ELSE IF r \in proc[s].demoted
              THEN [resumes[r] EXCEPT !.is_primary = FALSE]
              ELSE resumes[r]]
    /\ Finish(s, "OK")
    /\ UNCHANGED <<comments, banks, companies, members, jobs, apps, now,
                   last, req>>

\* u1 has uploaded resume 1 (primary) and resume 2
InitPrimaryConc ==
    /\ companies = {}
    /\ members = << >>
    /\ resumes = [r \in {1, 2} |-> [user |-> "u1", is_primary |-> r = 1]]
    /\ jobs = << >>
    /\ apps = << >>
    /\ comments = << >>
    /\ banks = << >>
    /\ now = 0
    /\ last = NoLast
    /\ req = NoReq
    /\ proc = [s \in Slots |-> IdleProc]

NextPrimaryConc ==
    \E s \in Slots :
       \/ CreatePrimaryStart(s)
       \/ SetPrimaryStart(s)
       \/ SetPrimaryFind(s)
       \/ DemoteSelect(s)
       \/ DemoteWrite(s)
       \/ PrimaryWrite(s)
       \/ PrimaryCommit(s)

SpecPrimaryConc == InitPrimaryConc /\ [][NextPrimaryConc]_vars

(***************************************************************************)
(* transferOwnership running concurrently with transferOwnership,          *)
(* revokeMember or updateMemberRole.  transferOwnership runs in one        *)
(* transaction (READ COMMITTED): its two findOne calls read the committed  *)
(* table, each save compares the entity with the row as the transaction    *)
(* sees it and issues an UPDATE only when a column differs, an UPDATE      *)
(* locks its row until the commit and waits for a row another open         *)
(* transaction has locked.  members is the committed table; the rows a     *)
(* transaction has written are held in proc[s].wrote until its commit.     *)
(* revokeMember and updateMemberRole are the unlocked steps above, their   *)
(* save waiting for a locked row.                                          *)
(***************************************************************************)
TransferPcs == {"current", "target", "promote", "demote", "commit"}

\* rows locked by open transactions other than that of slot s
MemberRowsLockedByOthers(s) ==
    UNION {DOMAIN proc[t].wrote :
              t \in {x \in Slots \ {s} : proc[x].pc \in TransferPcs}}

\* the row a statement of the transaction of slot s reads
SeenMember(s, m) ==
    IF m \in DOMAIN proc[s].wrote THEN proc[s].wrote[m] ELSE members[m]

\* a request enters transferOwnership(companyId, targetMemberId,
\* currentUserId) for a target other than the caller's own membership
TransferStart(s) ==
    /\ proc[s].pc = "idle"
    /\ \E u \in Users, m \in DOMAIN members :
          /\ m # <<"c1", u>>
          /\ proc' = [proc EXCEPT ![s] =
                        [pc |-> "current", op |-> "transferOwnership",
                         company |-> "c1", user |-> u, member |-> m,
                         currentMembership |-> NoMembership,
                         targetMembership |-> NoMembership,
                         wrote |-> << >>, res |-> "-"]]
    /\ UNCHANGED <<comments, banks, companies, members, resumes, jobs, apps,
                   now, last, req>>

\* await memberRepo.findOne({ company, user, role: OWNER, status: ACTIVE })
TransferFindCurrent(s) ==
    /\ proc[s].pc = "current"
    /\ LET cur == FindCurrentOwner(members, proc[s].company, proc[s].user) IN
       IF cur = {}
       THEN Finish(s, "ForbiddenException")
       ELSE proc' = [proc EXCEPT ![s] =
                       [@ EXCEPT !.pc = "target",
                                 !.currentMembership =
                                     members[CHOOSE m \in cur : TRUE]]]
    /\ UNCHANGED <<comments, banks, companies, members, resumes, jobs, apps,
                   now, last, req>>

\* await memberRepo.findOne({ id: targetMemberId, company, status: ACTIVE })
TransferFindTarget(s) ==
    /\ proc[s].pc = "target"
    /\ IF FindActiveTarget(members, proc[s].company, proc[s].member) = {}
       THEN Finish(s, "NotFoundException")
       ELSE proc' = [proc EXCEPT ![s] =
                       [@ EXCEPT !.pc = "promote",
                                 !.targetMembership = members[proc[s].member]]]
    /\ UNCHANGED <<comments, banks, companies, members, resumes, jobs, apps,
                   now, last, req>>

\* memberRepo.save(entity) inside the transaction of slot s: no statement
\* when the row the transaction sees equals the entity, else an UPDATE of
\* the row once no other transaction holds its lock
TransferSave(s, m, entity, nextPc) ==
    /\ SeenMember(s, m) # entity => m \notin MemberRowsLockedByOthers(s)
    /\ proc' = [proc EXCEPT ![s] =
                  [@ EXCEPT !.pc = nextPc,
                            !.wrote = IF SeenMember(s, m) = entity THEN @
                                      ELSE SaveMember(@, m, entity)]]

\* targetMembership.role = OWNER; await memberRepo.save(targetMembership)
TransferPromote(s) ==
    /\ proc[s].pc = "promote"
    /\ TransferSave(s, proc[s].member,
                    [proc[s].targetMembership EXCEPT !.role = "OWNER"], "demote")
    /\ UNCHANGED <<comments, banks, companies, members, resumes, jobs, apps,
                   now, last, req>>

\* currentMembership.role = ADMIN; await memberRepo.save(currentMembership)
TransferDemote(s) ==
    /\ proc[s].pc = "demote"
    /\ TransferSave(s, <<proc[s].company, proc[s].user>>,
                    [proc[s].currentMembership EXCEPT !.role = "ADMIN"], "commit")
    /\ UNCHANGED <<comments, banks, companies, members, resumes, jobs, apps,
                   now, last, req>>

\* the callback returns and the transaction commits its writes
TransferCommit(s) ==
    /\ proc[s].pc = "commit"
    /\ members' = [m \in DOMAIN members |->
                      IF m \in DOMAIN proc[s].wrote THEN proc[s].wrote[m]
                      ELSE members[m]]
    /\ Finish(s, "OK")
    /\ UNCHANGED <<comments, banks, companies, resumes, jobs, apps, now,
                   last, req>>

\* the save of revokeMember / updateMemberRole waits for a locked row
UnlockedRevokeSave(s) ==
    /\ proc[s].pc = "save"
    /\ proc[s].member \notin MemberRowsLockedByOthers(s)
    /\ RevokeSave(s)

UnlockedRoleSave(s) ==
    /\ proc[s].pc = "save"
    /\ proc[s].member \notin MemberRowsLockedByOthers(s)
    /\ RoleSave(s)

NextTransferConc ==
    \E s \in Slots :
       \/ TransferStart(s)
       \/ TransferFindCurrent(s)
       \/ TransferFindTarget(s)
       \/ TransferPromote(s)
       \/ TransferDemote(s)
       \/ TransferCommit(s)
       \/ RevokeStart(s)
       \/ RoleStart(s)
       \/ RevokeFind(s)
       \/ RoleFind(s)
       \/ OwnerCountStep(s)
       \/ UnlockedRevokeSave(s)
       \/ UnlockedRoleSave(s)

SpecTransferConc == InitMemberConc /\ [][NextTransferConc]_vars

(***************************************************************************)
(* Claims about the membership tables.                                     *)
(***************************************************************************)

\* C1: a revokeMember or updateMemberRole call on a tenant that has at least
\* one ACTIVE OWNER leaves it with at least one ACTIVE OWNER, so no sequence
\* of those calls brings the tenant's ACTIVE OWNER count to zero.
C1_RevokeAndRoleKeepAnOwner ==
    [][\A c \in companies :
         ( /\ \/ \E m \in MemberIds : revokeMember(c, m)
              \/ \E m \in MemberIds, r \in CompanyRole : updateMemberRole(c, m, r)
           /\ OwnerCount(members, c) >= 1 )
         => OwnerCount(members', c) >= 1]_vars

\* C1 witness: a revoke or a demotion of an ACTIVE OWNER was refused because
\* it was the last one, and the tenant still has that one OWNER.
C1_Witness ==
    /\ last.op \in {"revokeMember", "updateMemberRole"}
    /\ last.res = "BadRequestException"
    /\ members[last.member].role = "OWNER"
    /\ members[last.member].status = "ACTIVE"
    /\ OwnerCount(members, last.company) = 1

\* C2: every tenant has at least one membership with role OWNER and status
\* ACTIVE in every state reachable through createCompany, inviteMember,
\* updateMemberRole, revokeMember and transferOwnership.
C2_EveryTenantHasAnOwner ==
    \A c \in companies : ActiveOwners(members, c) # {}

\* C9: transferOwnership succeeds only from an ACTIVE OWNER initiator to an
\* ACTIVE target of the same tenant; on success the target is OWNER, the
\* initiator is ADMIN and no other membership changes; on failure nothing
\* changes.
C9_TransferPostcondition ==
    [][\A c \in companies, t \in MemberIds, u \in Users :
         transferOwnership(c, t, u) =>
            IF last'.res = "OK"
            THEN /\ <<c, u>> \in ActiveOwners(members, c)
                 /\ FindActiveTarget(members, c, t) # {}
                 /\ members'[t].role = "OWNER"
                 /\ members'[<<c, u>>].role = "ADMIN"
                 /\ DOMAIN members' = DOMAIN members
                 /\ \A m \in DOMAIN members :
                       /\ members'[m].status = members[m].status
                       /\ m \notin {t, <<c, u>>} => members'[m] = members[m]
            ELSE /\ last'.res \in {"ForbiddenException", "NotFoundException"}
                 /\ members' = members]_vars

\* C10: two concurrent revoke / demote calls on the two different OWNER
\* memberships of a tenant with exactly two ACTIVE OWNERs can both succeed
\* only by both reading an OWNER count of 2, and then the tenant has no
\* ACTIVE OWNER left.
C10_BothPassTheCountCheck ==
    \A s, t \in Slots :
       ( /\ s # t
         /\ proc[s].pc = "done" /\ proc[s].res = "OK" /\ proc[s].count # -1
         /\ proc[t].pc = "done" /\ proc[t].res = "OK" /\ proc[t].count # -1
         /\ proc[s].member # proc[t].member )
       => /\ proc[s].count = 2
          /\ proc[t].count = 2
          /\ OwnerCount(members, "c1") = 0

\* C10 witness: the interleaving exists, one revoke and one demotion (or two
\* of a kind) both read 2 and both committed, leaving zero ACTIVE OWNERs.
C10_Witness ==
    /\ \E s, t \in Slots :
          /\ s # t
          /\ proc[s].pc = "done" /\ proc[s].res = "OK" /\ proc[s].count = 2
          /\ proc[t].pc = "done" /\ proc[t].res = "OK" /\ proc[t].count = 2
          /\ proc[s].member # proc[t].member
    /\ OwnerCount(members, "c1") = 0


(***************************************************************************)
(* Claims about the guard pipeline.                                        *)
(***************************************************************************)
Stages(ran) == [i \in 1..Len(ran) |-> ran[i].stage]
PipelineOrder == <<JWT, CMG, RG, "handler">>
IsPrefix(a, b) == Len(a) <= Len(b) /\ \A i \in 1..Len(a) : a[i] = b[i]
TenantScoped(route) == \E i \in 1..Len(route.guards) : route.guards[i] = CMG
StageRan(stage) == \E i \in 1..Len(req.ran) : req.ran[i].stage = stage
CredentialsBad(token) == token \notin Users

\* C6: on every tenant-scoped route the stages run in the order Credential
\* Verifier, Membership Resolver, Role Authorizer, handler; a stage runs only
\* after every earlier stage accepted; and a request with bad credentials
\* ends as Unauthenticated with neither the membership stage, the role stage
\* nor the handler having run.
C6_OrderedShortCircuit ==
    (req.pc # "idle" /\ TenantScoped(req.route)) =>
       /\ \/ IsPrefix(Stages(req.ran), PipelineOrder)
          \/ IsPrefix(Stages(req.ran), <<JWT, CMG, "handler">>)
       /\ \A i \in 1..Len(req.ran) :
             i < Len(req.ran) => req.ran[i].verdict = "pass"
       /\ StageRan("handler") =>
             \A i \in 1..Len(req.route.guards) :
                /\ req.ran[i].stage = req.route.guards[i]
                /\ req.ran[i].verdict = "pass"
       /\ CredentialsBad(req.token) =>
             /\ ~StageRan(CMG) /\ ~StageRan(RG) /\ ~StageRan("handler")
             /\ req.outcome \in {"-", "UnauthorizedException"}
             /\ req.pc = "done" => req.outcome = "UnauthorizedException"

\* C6 witness: a request with a rejected token on a three-guard route ended
\* as Unauthenticated after the credential stage alone.
C6_Witness ==
    /\ req.pc = "done"
    /\ req.route.name = "transferOwnership"
    /\ req.token = "rejected"
    /\ Stages(req.ran) = <<JWT>>
    /\ req.outcome = "UnauthorizedException"

\* C7: the membership stage accepts exactly when the (tenant, actor) pair has
\* a membership row with status ACTIVE at the time of the check; otherwise
\* (row INVITED, row REVOKED, no row, no tenant identifier) it rejects with
\* Forbidden.
C7_ActiveMembershipOnly ==
    [][CompanyMembershipGuardStep =>
          LET v == req'.ran[Len(req'.ran)].verdict
              id == <<req.companyId, req.user>>
          IN /\ v = "pass" <=> /\ req.companyId # "-"
                               /\ id \in DOMAIN members
                               /\ members[id].status = "ACTIVE"
             /\ v # "pass" => v = "ForbiddenException" /\ req'.pc = "done"
             /\ v = "pass" => req'.membership = members[id]]_vars

\* C7 witness: a request by an actor whose membership was revoked was
\* rejected with Forbidden by the membership stage.
C7_Witness ==
    /\ req.pc = "done"
    /\ req.outcome = "ForbiddenException"
    /\ Stages(req.ran) = <<JWT, CMG>>
    /\ <<req.companyId, req.user>> \in DOMAIN members
    /\ members[<<req.companyId, req.user>>].status = "REVOKED"

\* C8: the role stage accepts exactly when the allowed-role set is empty or
\* holds the resolved membership's role; otherwise it rejects with Forbidden
\* and the handler does not run.
C8_RoleInAllowedSet ==
    [][ /\ RoleGuardStep =>
             LET v == req'.ran[Len(req'.ran)].verdict IN
             /\ v = "pass" <=> \/ req.route.roles = {}
                               \/ req.membership.role \in req.route.roles
             /\ v # "pass" => /\ v = "ForbiddenException"
                              /\ req'.outcome = "ForbiddenException"
                              /\ req'.pc = "done"
        /\ (HandlerStep /\ StageRan(RG)) =>
              \/ req.route.roles = {}
              \/ req.membership.role \in req.route.roles ]_vars

\* C8 witness: an ACTIVE member whose role is not in the route's set was
\* rejected with Forbidden by the role stage, the handler not having run.
C8_Witness ==
    /\ req.pc = "done"
    /\ Stages(req.ran) = <<JWT, CMG, RG>>
    /\ req.outcome = "ForbiddenException"
    /\ req.membership.status = "ACTIVE"
    /\ req.membership.role \notin req.route.roles


(***************************************************************************)
(* Claims about resumes and job listings.                                  *)
(***************************************************************************)

\* C4: every actor has at most one resume with is_primary = true, and right
\* after a successful setPrimary or create with is_primary = true the actor
\* has exactly one, the target resume.
C4_AtMostOnePrimary ==
    /\ \A u \in Users : Cardinality(Primaries(resumes, u)) <= 1
    /\ ( /\ last.res = "OK"
         /\ \/ last.op = "setPrimary"
            \/ last.op = "createResume" /\ last.is_primary )
       => Primaries(resumes, last.user) = {last.resume}

\* C4 witness: setPrimary moved the primary flag to a resume of an actor who
\* owns another resume.
C4_Witness ==
    /\ last.op = "setPrimary" /\ last.res = "OK"
    /\ Cardinality(ResumesOf(resumes, last.user)) >= 2
    /\ resumes[last.resume].is_primary

\* C5: when a listing read (findAll or findPublicJobs) has completed, no
\* non-deleted posting in the read's scope is still ACTIVE with a deadline
\* that had passed at the time of the read, and the read returned no such
\* posting as ACTIVE.
PassedAt(job, t) == job.deadline # {} /\ \A d \in job.deadline : d < t

C5_ListingReadClosesExpired ==
    last.op \in {"findAll", "findPublicJobs"} =>
       /\ \A j \in DOMAIN jobs :
             ( /\ jobs[j].company \in last.scope
               /\ ~jobs[j].deleted
               /\ PassedAt(jobs[j], last.at) )
             => jobs[j].status # "ACTIVE"
       /\ \A item \in last.items :
             item[2] = "ACTIVE" => ~PassedAt(jobs[item[1]], last.at)


(***************************************************************************)
(* Claims about concurrent applications.                                   *)
(***************************************************************************)

\* C3: of the concurrent apply requests for one (job, actor) pair that all
\* passed the duplicate pre-check, one succeeds and every other one ends with
\* the outcome of the pre-check (the duplicate-application error), never with
\* a raw storage error; at most one row exists for the pair.
C3_LosersGetTheConflictOutcome ==
    /\ \A s \in Slots :
          (proc[s].pc = "done" /\ proc[s].prechecked /\ proc[s].res # "OK")
          => proc[s].res = "BadRequestException"
    /\ \A s, t \in Slots :
          ( /\ s # t
            /\ proc[s].pc = "done" /\ proc[s].res = "OK"
            /\ proc[t].pc = "done" /\ proc[t].res = "OK" )
          => <<proc[s].job, proc[s].user>> # <<proc[t].job, proc[t].user>>


(***************************************************************************)
(* Claims about terminal statuses and refused calls.                       *)
(***************************************************************************)

\* C11: REVOKED is terminal: no inviteMember, updateMemberRole, revokeMember
\* or transferOwnership call changes the status of a REVOKED membership, and
\* a successful transferOwnership has neither a REVOKED initiator membership
\* nor a REVOKED target.
C11_RevokedIsTerminal ==
    [][/\ \A m \in DOMAIN members :
            members[m].status = "REVOKED" =>
               m \in DOMAIN members' /\ members'[m].status = "REVOKED"
       /\ \A c \in companies, t \in MemberIds, u \in Users :
            (transferOwnership(c, t, u) /\ last'.res = "OK") =>
               /\ members[t].status # "REVOKED"
               /\ \A m \in FindMemberOfUser(members, c, u) :
                     members[m].status # "REVOKED"]_vars

\* C11 witness: an ACTIVE OWNER named a REVOKED membership of the tenant as
\* the transfer target and the call was refused.
C11_Witness ==
    /\ last.op = "transferOwnership"
    /\ last.res = "NotFoundException"
    /\ FindCurrentOwner(members, last.company, last.user) # {}
    /\ FindMember(members, last.member, last.company) # {}
    /\ members[last.member].status = "REVOKED"

\* C14: when a tenant has exactly one ACTIVE OWNER membership M,
\* revokeMember(M) and updateMemberRole(M, role other than OWNER) are refused
\* with the last-OWNER error and change no membership row.
C14_LastOwnerCallsRefused ==
    [][\A c \in companies, m \in MemberIds :
         ActiveOwners(members, c) = {m} =>
            /\ revokeMember(c, m) =>
                  last'.res = "BadRequestException" /\ members' = members
            /\ \A r \in CompanyRole \ {"OWNER"} :
                  updateMemberRole(c, m, r) =>
                     last'.res = "BadRequestException" /\ members' = members]_vars

\* C14 witness: revokeMember was called on the only ACTIVE OWNER of a tenant
\* that has other memberships, and was refused.
C14_Witness ==
    /\ last.op = "revokeMember"
    /\ last.res = "BadRequestException"
    /\ ActiveOwners(members, last.company) = {last.member}
    /\ Cardinality(FindMemberOfUser(members, last.company, "u2")
                   \cup FindMemberOfUser(members, last.company, "u3")) >= 1

(***************************************************************************)
(* Claims about the application lifecycle.                                 *)
(***************************************************************************)

\* C12: WITHDRAWN is terminal: on a WITHDRAWN application every updateStatus
\* of its tenant and every withdraw of its applicant is refused with the
\* invalid-transition error, and no call changes its status or its
\* status_changed_by.
C12_WithdrawnIsTerminal ==
    [][\A a \in DOMAIN apps :
         apps[a].status = "WITHDRAWN" =>
            /\ a \in DOMAIN apps'
            /\ apps'[a].status = "WITHDRAWN"
            /\ apps'[a].status_changed_by = apps[a].status_changed_by
            /\ \A st \in UpdateStatuses :
                  updateStatus(apps[a].company, a, st, "u3") =>
                     last'.res = "BadRequestException" /\ apps' = apps
            /\ withdraw(apps[a].user, a) =>
                  last'.res = "BadRequestException" /\ apps' = apps]_vars

\* C12 witness: the tenant's member called updateStatus on a WITHDRAWN
\* application and was refused.
C12_Witness ==
    /\ last.op = "updateStatus"
    /\ last.res = "BadRequestException"
    /\ FindCompanyApplication(apps, last.app, last.company) # {}
    /\ apps[last.app].status = "WITHDRAWN"

\* C13: withdraw by the applicant on an ACCEPTED application is refused with
\* the invalid-transition error and the application stays ACCEPTED.
C13_WithdrawAcceptedRefused ==
    [][\A a \in DOMAIN apps :
         (apps[a].status = "ACCEPTED" /\ withdraw(apps[a].user, a)) =>
            /\ last'.res = "BadRequestException"
            /\ apps' = apps
            /\ apps'[a].status = "ACCEPTED"]_vars

\* C13 witness: the applicant called withdraw on their ACCEPTED application
\* and was refused.
C13_Witness ==
    /\ last.op = "withdraw"
    /\ last.res = "BadRequestException"
    /\ FindOwnApplication(apps, last.app, last.user) # {}
    /\ apps[last.app].status = "ACCEPTED"

\* the request would pass the job, deadline and resume steps of apply
ApplyAdmissible(u, j, r) ==
    /\ FindOpenJob(jobs, j) # {}
    /\ ~DeadlinePassed(jobs[j], now)
    /\ FindOwnResume(resumes, r, u) # {}

\* C15: the first apply of an actor to an open job creates an application
\* with status APPLIED; a later apply of the same actor to the same job is
\* refused with the duplicate-application error, creates no row and leaves
\* the first application unchanged, whatever its status is by then.
C15_SecondApplyRefused ==
    [][\A u \in Candidates, j \in JobIds, r \in ResumeIds :
         (ApplyAdmissible(u, j, r) /\ apply(u, j, r)) =>
            IF FindApplication(apps, j, u) = {}
            THEN /\ last'.res = "OK"
                 /\ DOMAIN apps' = DOMAIN apps \cup {<<j, u>>}
                 /\ apps'[<<j, u>>].status = "APPLIED"
            ELSE /\ last'.res = "BadRequestException"
                 /\ apps' = apps]_vars

\* C15 witness: a second apply was refused while the first application was
\* WITHDRAWN or REJECTED.
C15_Witness ==
    /\ last.op = "apply"
    /\ last.res = "BadRequestException"
    /\ <<last.job, last.user>> \in DOMAIN apps
    /\ apps[<<last.job, last.user>>].status \in {"WITHDRAWN", "REJECTED"}

C19_CandidateSeesVisibleCommentsOnly ==
    last.op = "getCandidateApplications" =>
       \A item \in last.items :
          \A c \in item.comments : comments[c].visible

(***************************************************************************)
(* Claims about job postings.                                              *)
(***************************************************************************)

\* the postings the claim expects an auto-close at time t to close; scope
\* is {} (no tenant given) or {companyId}.  A deadline equal to t counts as
\* passed.
ToClose(jb, t, scope) ==
    {j \in DOMAIN jb : /\ jb[j].status = "ACTIVE"
                       /\ ~jb[j].deleted
                       /\ scope = {} \/ jb[j].company \in scope
                       /\ \E d \in jb[j].deadline : d <= t}

ClosedExactly(before, after, t, scope) ==
    /\ DOMAIN after = DOMAIN before
    /\ \A j \in DOMAIN before :
          after[j] = IF j \in ToClose(before, t, scope)
                     THEN [before[j] EXCEPT !.status = "CLOSED"]
                     ELSE before[j]

\* C17: the deadline-triggered auto-close run at time now, for one tenant or
\* for all, sets to CLOSED exactly the ACTIVE, not soft-deleted, in-scope
\* postings whose deadline is set and has passed, changes no other posting
\* and no other column, and run again on its own result changes nothing.
C17_AutoCloseExactAndIdempotent ==
    /\ last.op = "findAll" =>
          /\ ClosedExactly(last.before, jobs, last.at, last.scope)
          /\ autoCloseExpiredJobs(jobs, last.at, last.scope) = jobs
    /\ LET all == autoCloseExpiredJobs(jobs, now, {}) IN
          /\ ClosedExactly(jobs, all, now, {})
          /\ autoCloseExpiredJobs(all, now, {}) = all

\* C17 witness: a listing read closed an expired posting of its tenant while
\* an expired ACTIVE posting that is soft-deleted or belongs to the other
\* tenant stayed ACTIVE.
C17_Witness ==
    /\ last.op = "findAll"
    /\ last.closed # {}
    /\ \A j \in last.closed : jobs[j].status = "CLOSED"
    /\ \E k \in DOMAIN jobs :
          /\ jobs[k].status = "ACTIVE"
          /\ \E d \in jobs[k].deadline : d <= last.at
          /\ jobs[k].deleted \/ jobs[k].company \notin last.scope

\* C16: a posting created with a question-bank reference stores the bank's
\* question list as it is at creation; no later call (question-bank update,
\* job update, status change, auto-close, soft-delete) changes the stored
\* snapshot of any posting, and reading the posting returns the stored
\* snapshot.
C16_SnapshotKept ==
    [][/\ \A j \in DOMAIN jobs :
            /\ j \in DOMAIN jobs'
            /\ jobs'[j].screening_questions = jobs[j].screening_questions
       /\ \A j \in (DOMAIN jobs') \ (DOMAIN jobs) :
            /\ last'.op = "createJob" /\ last'.res = "OK"
            /\ last'.bank \in DOMAIN banks
            /\ jobs'[j].screening_questions = {banks[last'.bank].questions}
       /\ (last'.op = "findOne" /\ last'.res = "OK") =>
            last'.snapshot = jobs[last'.job].screening_questions]_vars

\* C16 witness: a posting is read after its source bank was edited, and the
\* snapshot returned differs from the bank's current question list.
C16_Witness ==
    /\ last.op = "findOne" /\ last.res = "OK"
    /\ last.snapshot # {}
    /\ \A b \in DOMAIN banks : last.snapshot # {banks[b].questions}

(***************************************************************************)
(* Claims about tenant scoping.                                            *)
(***************************************************************************)

\* the call recorded in l names a row that exists but belongs to another
\* tenant than the route's (for transferOwnership: the caller being an
\* ACTIVE OWNER of the route's tenant), or an application of another actor
ScopeMismatch(l) ==
    CASE l.op \in {"updateMemberRole", "revokeMember"} ->
            /\ l.member \in DOMAIN members
            /\ members[l.member].company # l.company
      [] l.op = "transferOwnership" ->
            /\ l.member \in DOMAIN members
            /\ members[l.member].company # l.company
            /\ FindCurrentOwner(members, l.company, l.user) # {}
      [] l.op \in {"updateJob", "updateJobStatus", "softDeleteJob"} ->
            /\ l.job \in DOMAIN jobs
            /\ jobs[l.job].company # l.company
      [] l.op = "createJob" ->
            /\ l.bank \in DOMAIN banks
            /\ banks[l.bank].company # l.company
      [] l.op \in {"updateStatus", "addComment"} ->
            /\ l.app \in DOMAIN apps
            /\ apps[l.app].company # l.company
      [] l.op = "withdraw" ->
            /\ l.app \in DOMAIN apps
            /\ apps[l.app].user # l.user
      [] OTHER -> FALSE

\* C20: a role change, revoke, ownership transfer, job update, job status
\* change, job soft-delete, job creation with a question bank, application
\* status change or comment add made through one tenant's route on a row
\* of another tenant, and a withdraw of another actor's application, ends
\* with NotFoundException and changes no row of any table.
C20_ScopeMismatchIsNotFound ==
    [][ScopeMismatch(last') =>
          /\ last'.res = "NotFoundException"
          /\ UNCHANGED <<companies, members, resumes, jobs, apps, comments,
                         banks>>]_vars

\* C20 witness: an ACTIVE OWNER of one tenant named an ACTIVE membership of
\* the other tenant as the ownership-transfer target and got
\* NotFoundException.
C20_Witness ==
    /\ last.op = "transferOwnership"
    /\ last.res = "NotFoundException"
    /\ FindCurrentOwner(members, last.company, last.user) # {}
    /\ last.member \in DOMAIN members
    /\ members[last.member].company # last.company
    /\ members[last.member].status = "ACTIVE"

(***************************************************************************)
(* Claims about the denormalized tenant identifier.                        *)
(***************************************************************************)

\* the company_id of every application is its posting's, the company_id of
\* every comment is its application's
TenantIdsAgree(jb, ap, cm) ==
    /\ \A a \in DOMAIN ap :
          ap[a].job \in DOMAIN jb /\ ap[a].company = jb[ap[a].job].company
    /\ \A c \in DOMAIN cm :
          cm[c].app \in DOMAIN ap /\ cm[c].company = ap[cm[c].app].company

\* C21: in every reachable state each application's company_id equals the
\* company of its job and each comment's company_id equals the company of
\* its application, and no step (application status change, withdraw, job
\* update or soft-delete, comment add) changes the company_id of an existing
\* application, comment or posting.
C21_TenantIdSetOnce ==
    [][/\ TenantIdsAgree(jobs, apps, comments)
       /\ TenantIdsAgree(jobs', apps', comments')
       /\ \A a \in DOMAIN apps :
             a \in DOMAIN apps' /\ apps'[a].company = apps[a].company
       /\ \A c \in DOMAIN comments :
             c \in DOMAIN comments' /\ comments'[c].company = comments[c].company
       /\ \A j \in DOMAIN jobs :
             j \in DOMAIN jobs' /\ jobs'[j].company = jobs[j].company]_vars

\* a comment was added through tenant c2's route to an application that has
\* since been withdrawn, on a posting that has since been soft-deleted
C21_Witness ==
    /\ \E c \in DOMAIN comments :
          /\ comments[c].company = "c2"
          /\ apps[comments[c].app].status = "WITHDRAWN"
          /\ jobs[apps[comments[c].app].job].deleted
    /\ \E a \in DOMAIN apps : apps[a].company = "c1" /\ apps[a].status = "ACCEPTED"

(***************************************************************************)
(* Claims about postings and applying to them.                             *)
(***************************************************************************)

\* the step is a call (time does not pass in it), so last' describes it
IsCall == now' = now

\* C22: a soft-deleted posting stays soft-deleted and its row is never
\* written again (auto-close included); findAll, findPublicJobs and findOne
\* do not return it; update, updateStatus and softDelete on it end with
\* NotFoundException; apply to it ends with NotFoundException and creates no
\* application.
C22_SoftDeletedIsGone ==
    [][/\ \A j \in DOMAIN jobs :
             jobs[j].deleted => j \in DOMAIN jobs' /\ jobs'[j] = jobs[j]
       /\ IsCall /\ last'.op \in {"findAll", "findPublicJobs"} =>
             \A it \in last'.items : ~jobs[it[1]].deleted
       /\ IsCall /\ last'.op \in {"findOne", "updateJob", "updateJobStatus",
                                  "softDeleteJob"}
                 /\ last'.job \in DOMAIN jobs /\ jobs[last'.job].deleted =>
             last'.res = "NotFoundException"
       /\ IsCall /\ last'.op = "apply"
                 /\ last'.job \in DOMAIN jobs /\ jobs[last'.job].deleted =>
             last'.res = "NotFoundException" /\ apps' = apps]_vars

\* an ACTIVE PUBLIC posting without deadline was soft-deleted and a candidate
\* owning a resume then applied to it and was refused
C22_Witness ==
    /\ last.op = "apply" /\ last.res = "NotFoundException"
    /\ last.job \in DOMAIN jobs
    /\ jobs[last.job].deleted
    /\ jobs[last.job].status = "ACTIVE"
    /\ jobs[last.job].visibility = "PUBLIC"
    /\ jobs[last.job].deadline = {}
    /\ FindOwnResume(resumes, last.resume, last.user) # {}
    /\ apps = << >>

\* the posting exists, is ACTIVE and is not soft-deleted
JobOpen(j) ==
    j \in DOMAIN jobs /\ jobs[j].status = "ACTIVE" /\ ~jobs[j].deleted

\* the posting's deadline is null or has not passed
DeadlineOpen(j) == \A d \in jobs[j].deadline : ~(now > d)

\* the resume exists and belongs to the actor
ResumeOwned(r, u) == r \in DOMAIN resumes /\ resumes[r].user = u

\* C23: an application row is created only by an apply call for which the
\* job exists with status ACTIVE and is not soft-deleted, its deadline is
\* null or has not passed, and the resume belongs to the actor; a failing
\* check ends the call with NotFoundException, the deadline error or
\* ForbiddenException, tested in that order, and no row is created; every
\* application's resume, when non-null, is owned by the application's actor.
C23_ApplyChecksInOrder ==
    [][/\ IsCall /\ last'.op = "apply" =>
             /\ ~JobOpen(last'.job) => last'.res = "NotFoundException"
             /\ JobOpen(last'.job) /\ ~DeadlineOpen(last'.job) =>
                   last'.res = "BadRequestException:deadline"
             /\ JobOpen(last'.job) /\ DeadlineOpen(last'.job)
                   /\ ~ResumeOwned(last'.resume, last'.user) =>
                   last'.res = "ForbiddenException"
             /\ last'.res # "OK" => apps' = apps
       /\ \A a \in DOMAIN apps' \ DOMAIN apps :
             /\ IsCall /\ last'.op = "apply" /\ last'.res = "OK"
             /\ apps'[a].job = last'.job /\ apps'[a].user = last'.user
             /\ apps'[a].resume = {last'.resume}
             /\ JobOpen(last'.job) /\ DeadlineOpen(last'.job)
             /\ ResumeOwned(last'.resume, last'.user)
       /\ \A a \in DOMAIN apps' : \A r \in apps'[a].resume :
             r \in DOMAIN resumes' /\ resumes'[r].user = apps'[a].user]_vars

\* an apply was refused for the resume of another actor on an open posting
\* whose deadline is the current time, while the table holds an application
\* whose resume is null
C23_Witness ==
    /\ last.op = "apply" /\ last.res = "ForbiddenException"
    /\ JobOpen(last.job)
    /\ jobs[last.job].deadline = {now}
    /\ last.resume \in DOMAIN resumes /\ resumes[last.resume].user # last.user
    /\ \E a \in DOMAIN apps : apps[a].resume = {}

(***************************************************************************)
(* Claims about the application status.                                   *)
(***************************************************************************)

\* C24: an application enters WITHDRAWN only from APPLIED and only through a
\* withdraw call of the actor who owns it; withdraw on an ACCEPTED, REJECTED
\* or WITHDRAWN application is refused; no company-side call sets WITHDRAWN.
C24_WithdrawnOnlyFromApplied ==
    [][/\ \A a \in DOMAIN apps' :
             /\ apps'[a].status = "WITHDRAWN"
             /\ a \in DOMAIN apps => apps[a].status # "WITHDRAWN"
             => /\ a \in DOMAIN apps
                /\ apps[a].status = "APPLIED"
                /\ last'.op = "withdraw"
                /\ last'.app = a
                /\ last'.user = apps[a].user
       /\ /\ last'.op = "withdraw"
          /\ last'.app \in DOMAIN apps
          /\ apps[last'.app].status \in {"ACCEPTED", "REJECTED", "WITHDRAWN"}
          => last'.res # "OK" /\ apps' = apps]_vars

(***************************************************************************)
(* Further claims about the membership tables.                             *)
(***************************************************************************)

C26_BootstrapIsAtomic ==
    /\ \A c \in companies : \E m \in DOMAIN members : members[m].company = c
    /\ \A m \in DOMAIN members : members[m].company \in companies
    /\ \A s \in Slots :
          proc[s].pc = "done" =>
             IF proc[s].res = "OK"
             THEN /\ proc[s].company \in companies
                  /\ <<proc[s].company, proc[s].user>> \in DOMAIN members
                  /\ members[<<proc[s].company, proc[s].user>>]
                        = [company |-> proc[s].company, user |-> proc[s].user,
                           role |-> "OWNER", status |-> "ACTIVE"]
             ELSE /\ proc[s].company \notin companies
                  /\ \A m \in DOMAIN members : members[m].company # proc[s].company

\* one call has committed its company while another call failed after its
\* company save
C26_Witness ==
    /\ companies # {}
    /\ \E s \in Slots :
          /\ proc[s].pc = "done" /\ proc[s].res = "QueryFailedError"
          /\ proc[s].saved = 1
          /\ proc[s].company \notin companies
    /\ \E s \in Slots : proc[s].pc = "done" /\ proc[s].res = "OK"

(***************************************************************************)
(* Claims about concurrent calls.                                          *)
(***************************************************************************)

\* C27: with a withdraw and an updateStatus running concurrently on an
\* APPLIED application, once the withdraw has committed the status is
\* WITHDRAWN and stays so: the updateStatus does not overwrite it with
\* ACCEPTED or REJECTED.
C27_CommittedWithdrawStands ==
    \A s \in Slots :
       proc[s].pc = "done" /\ proc[s].op = "withdraw" /\ proc[s].res = "OK" =>
          apps[proc[s].app].status = "WITHDRAWN"

\* C28: with two primary-resume calls of one actor running concurrently
\* (create with is_primary true, setPrimary), each in its own transaction,
\* the committed table always holds exactly one resume of that actor with
\* is_primary = true.
C28_ExactlyOnePrimaryCommitted ==
    Cardinality(Primaries(resumes, "u1")) = 1

\* the calls that have entered revokeMember or updateMemberRole
RevokeOrRoleCalls ==
    {s \in Slots : /\ proc[s].pc # "idle"
                   /\ proc[s].op \in {"revokeMember", "updateMemberRole"}}

\* C29: with ownership transfers running concurrently with each other or
\* with one revoke or demotion, the committed table always holds at least
\* one ACTIVE OWNER membership of the tenant.
C29_TransfersKeepAnOwner ==
    Cardinality(RevokeOrRoleCalls) <= 1 => ActiveOwners(members, "c1") # {}

(***************************************************************************)
(* Claims about who can make or unmake an OWNER.                           *)
(***************************************************************************)

\* the step is a handler call made for a caller whose resolved membership
\* holds only ADMIN or RECRUITER
CalledByNonOwner ==
    /\ req.pc = "guards" /\ req'.pc = "done"
    /\ req.idx > Len(GuardChain(req.route))
    /\ req.membership.role \in {"ADMIN", "RECRUITER"}

\* C30: no call made by an actor holding only ADMIN or RECRUITER
\* (inviteMember, updateMemberRole, revokeMember) gives any membership, the
\* actor's own included, the role OWNER, takes the role from an existing
\* OWNER or revokes an existing OWNER.
C30_NonOwnerCannotMakeOrUnmakeOwner ==
    [][CalledByNonOwner =>
          \A m \in DOMAIN members' :
             /\ members'[m].role = "OWNER" =>
                   m \in DOMAIN members /\ members[m].role = "OWNER"
             /\ m \in DOMAIN members /\ members[m].role = "OWNER" =>
                   members'[m] = members[m]]_vars

====
